---- MODULE Spec2Model ----
(***************************************************************************)
(* Strategy-signal pipeline, portfolio simulators and cache layer of       *)
(* alphavibe.                                                              *)
(*                                                                         *)
(* Specifications:                                                         *)
(*   Spec           the two portfolio simulators on arbitrary frames:      *)
(*                  main.py backtest_strategy (position flag, fee, floor)  *)
(*                  and src/backtest/backtest_engine.py backtest_strategy  *)
(*   SpecRoundTrip  main.py's simulator on a flat series, one buy then an  *)
(*                  immediate sell                                         *)
(*   SpecCache      src/utils/cache_manager.py CacheManager                *)
(*   SpecDamaged    the cache on a directory whose files can be damaged    *)
(*   SpecKeys       the cache called with reordered key_parts dicts        *)
(*   SpecConcurrent two concurrent save_to_cache calls on one key          *)
(*   SpecReader     a load_from_cache call concurrent with those saves     *)
(*   SpecData       src/api/upbit_api.py get_backtest_data over the cache  *)
(*   SpecDataFaulty get_backtest_data when writes of the cache may fail    *)
(*   SpecStrategy   SMA, Bollinger and buy-and-hold strategies applied to  *)
(*                  arbitrary frames and run by the engine                 *)
(*   SpecScenarioA  the SMA strategy on a linearly rising series           *)
(*   SpecMomentum   the RSI strategy applied to frames of three prices and *)
(*                  run by the engine                                      *)
(*   SpecFactory    src/strategies: registry lookups and the two           *)
(*                  create_strategy functions                              *)
(*                                                                         *)
(* Money is kept in fixed point: cash and asset values are whole currency  *)
(* units, coin amounts are counted in 1/CoinScale coin, and every float    *)
(* product or quotient of the source is the corresponding integer          *)
(* expression rounded down.                                                *)
(***************************************************************************)
EXTENDS Integers, Sequences, FiniteSets, TLC

VARIABLES
    \* ---- main.py backtest_strategy ----
    initial_capital,   \* the initial_capital argument
    row,               \* number of rows of df already processed (loop index i)
    price,             \* df['close'].iloc[i] of the row processed last
    signal,            \* df['signal'].iloc[i] of the row processed last
    cash,
    coin_amount,       \* in 1/CoinScale coin
    position,          \* 0: flat, 1: long
    trade_history,     \* ledger, entries [type, price] (date = row, omitted)
    cash_history,      \* the entry appended last to cash_history
    asset_history,     \* the entry appended last to asset_history
    position_history,  \* the entry appended last to position_history
    \* ---- src/backtest/backtest_engine.py backtest_strategy ----
    eng_row,           \* number of dates of df.index already processed
    eng_price,         \* df.loc[date, 'close'] of the date processed last
    eng_signals,       \* rows the signal frame returned by strategy_func
                       \* carries for that date, in frame order
    eng_cash,
    eng_coin,          \* coin_amount, in 1/CoinScale coin
    eng_trades,        \* trade_history, entries [date, type, price, amount, coin_amount]
    eng_cash_hist,     \* the entry appended last to cash_history
    eng_coin_hist,     \* the entry appended last to coin_amount_history
    \* ---- round-trip scenario inputs (SpecRoundTrip) ----
    flat_price,        \* the constant close price of the scenario, 0 elsewhere
    buy_row,           \* the row carrying the buy signal, 0 elsewhere
    \* ---- src/utils/cache_manager.py CacheManager ----
    now,               \* datetime.now(), in clock ticks
    files,             \* the files of cache_dir: path -> content
    last_op,           \* the CacheManager call made last, with its result
    n_saves,           \* number of save_to_cache calls made
    n_ops,             \* number of CacheManager calls made
    \* ---- concurrent save_to_cache calls (SpecConcurrent) ----
    writers,           \* per call: its arguments, locals and position
    \* ---- src/api/upbit_api.py get_backtest_data (SpecData) ----
    n_gets,            \* number of get_backtest_data calls made
    n_fetch,           \* number of get_historical_data calls made
    last_get,          \* the get_backtest_data call made last, with its result
    fetched,           \* per request: the frame the provider supplied last
                       \* and the time of that call
    \* ---- src/strategies: a strategy applied to a frame and backtested ----
    strategy,          \* the strategy object: its kind and parameters
    ohlcv,             \* the caller's frame df: its 'close' column, oldest first
    applied,           \* what strategy.apply(df) returned or raised
    signals,           \* what strategy.generate_signals(applied) returned
    result,            \* the engine's run on df: its progress and outcome
    \* ---- src/strategies: registry and factories (SpecFactory) ----
    registry,          \* StrategyRegistry._strategies: code -> class
    last_call,         \* the lookup or creation call made last, with its outcome
    n_calls,           \* number of such calls made
    \* ---- load_from_cache concurrent with save_to_cache (SpecReader) ----
    reader             \* the load call: its arguments, locals and position

mainVars == <<initial_capital, row, price, signal, cash, coin_amount, position,
              trade_history, cash_history, asset_history, position_history>>
engVars == <<eng_row, eng_price, eng_signals, eng_cash, eng_coin, eng_trades,
             eng_cash_hist, eng_coin_hist>>
scenarioVars == <<flat_price, buy_row>>
cacheVars == <<now, files, last_op, n_saves, n_ops>>
writerVars == <<writers>>
\* State of the components added after the simulators and the cache
dataVars == <<n_gets, n_fetch, last_get, fetched>>
stratVars == <<strategy, ohlcv, applied, signals, result>>
factoryVars == <<registry, last_call, n_calls>>
readerVars == <<reader>>
lateVars == <<factoryVars, readerVars>>
extraVars == <<writerVars, dataVars, stratVars, lateVars>>
vars == <<mainVars, engVars, scenarioVars, cacheVars, extraVars>>

----------------------------------------------------------------------------
(* Bounds of the model *)

MaxRows == 14          \* rows of one price/signal frame
MaxAsset == 200000     \* largest asset value a run may reach
EngRows == 4           \* dates of one engine run
MaxDup == 2            \* signal rows one date may carry in the raw frame
MaxTime == 2           \* seconds the clock may advance
MaxOps == 3            \* CacheManager calls of one run
MaxSaves == 2          \* save_to_cache calls among them
MaxGets == 3           \* get_backtest_data calls of one run

InitialCapitals == {100000}
ScenarioCapitals == {60000, 100000}
Prices == {1, 100}

(* Fixed-point scale of coin amounts *)
CoinScale == 1000

----------------------------------------------------------------------------
(* Program constants of main.py backtest_strategy *)

FeeNum == 5            \* fee_rate = 0.0005 = FeeNum / FeeDen
FeeDen == 10000
MaxInvestNum == 1      \* max_invest_ratio = 0.5 = MaxInvestNum / MaxInvestDen
MaxInvestDen == 2
FloorNum == 1          \* safety floor 0.01 = FloorNum / FloorDen
FloorDen == 100

----------------------------------------------------------------------------
(* Arithmetic *)

\* floor(a * b / c) without forming a * b
MulDiv(a, b, c) == (a \div c) * b + ((a % c) * b) \div c

\* Mutant of AfterFee: the fee is added instead of deducted
AfterFee_FeeAdded(x) == MulDiv(x, FeeDen + FeeNum, FeeDen)

\* x * (1 - fee_rate)
AfterFee(x) == MulDiv(x, FeeDen - FeeNum, FeeDen)

\* coin_amount * price, as a cash value
CoinValue(coin, p) == MulDiv(coin, p, CoinScale)

----------------------------------------------------------------------------
(* main.py backtest_strategy: one iteration of the loop over df *)

\* invest_amount = cash * max_invest_ratio
InvestAmount(c) == MulDiv(c, MaxInvestNum, MaxInvestDen)

\* coin_to_buy = (invest_amount * (1 - fee_rate)) / price
CoinToBuy(invest, p) == MulDiv(AfterFee(invest), CoinScale, p)

\* cash_gained = coin_amount * price * (1 - fee_rate)
CashGained(coin, p) == AfterFee(CoinValue(coin, p))

\* Mutant of BuyBranch: every non-sell signal buys
BuyBranch_AnySignal(sig, pos) == sig # -1 /\ pos = 0

\* if signal == 1 and position == 0
BuyBranch(sig, pos) == sig = 1 /\ pos = 0

\* elif signal == -1 and position == 1
SellBranch(sig, pos) == sig = -1 /\ pos = 1

\* Mutant of SafetyFloor: the 0.01 factor is missing from the comparison
SafetyFloor_NoFactor(asset, initial) ==
    IF asset < initial
    THEN MulDiv(initial, FloorNum, FloorDen)
    ELSE asset

\* if asset_value < initial_capital * 0.01: asset_value = initial_capital * 0.01
SafetyFloor(asset, initial) ==
    IF asset * FloorDen < initial * FloorNum
    THEN MulDiv(initial, FloorNum, FloorDen)
    ELSE asset

\* The body of the loop for one row with close p and signal sig.
LoopBody(p, sig) ==
    /\ row < MaxRows
    /\ cash + CoinValue(coin_amount, p) <= MaxAsset
    /\ row' = row + 1
    /\ price' = p
    /\ signal' = sig
    /\ IF BuyBranch(sig, position)
       THEN /\ cash' = cash - InvestAmount(cash)
            /\ coin_amount' = coin_amount + CoinToBuy(InvestAmount(cash), p)
            /\ position' = 1
            /\ trade_history' = Append(trade_history, [type |-> "buy", price |-> p])
       ELSE IF SellBranch(sig, position)
       THEN /\ cash' = cash + CashGained(coin_amount, p)
            /\ coin_amount' = 0
            /\ position' = 0
            /\ trade_history' = Append(trade_history, [type |-> "sell", price |-> p])
       ELSE UNCHANGED <<cash, coin_amount, position, trade_history>>
    /\ asset_history' = SafetyFloor(cash' + CoinValue(coin_amount', p), initial_capital)
    /\ cash_history' = cash'
    /\ position_history' = position'
    /\ UNCHANGED initial_capital

Signals == {-1, 0, 1}

MainStart(capitals) ==
    /\ initial_capital \in capitals
    /\ row = 0
    /\ price = 0
    /\ signal = 0
    /\ cash = initial_capital
    /\ coin_amount = 0
    /\ position = 0
    /\ trade_history = <<>>
    /\ cash_history = 0
    /\ asset_history = 0
    /\ position_history = 0

----------------------------------------------------------------------------
(* src/backtest/backtest_engine.py backtest_strategy: one date of the loop *)
(* over df.index                                                           *)

\* The 'ratio' column of a signal row, as num / den; a row without the
\* column has the default 1.0
FullRatio == [num |-> 1, den |-> 1]
HalfRatio == [num |-> 1, den |-> 2]
Ratios == {HalfRatio, FullRatio}
\* the 'amount' column of a signal row: NoAmount is None
NoAmount == 0
Amounts == {NoAmount, 30000}

\* Rows a signal frame can carry: 'hold' stands for every type other than
\* 'buy' and 'sell'
SignalRows ==
    {[type |-> "hold", ratio |-> FullRatio, amount |-> NoAmount]}
    \cup [type : {"buy", "sell"}, ratio : Ratios, amount : {NoAmount}]
    \cup [type : {"buy", "sell"}, ratio : {FullRatio}, amount : Amounts \ {NoAmount}]

\* All sequences over S of length at most n
RECURSIVE SeqsUpTo(_, _)
SeqsUpTo(S, n) ==
    IF n = 0 THEN {<<>>}
    ELSE LET shorter == SeqsUpTo(S, n - 1)
         IN shorter \cup {Append(q, x) : q \in {t \in shorter : Len(t) = n - 1}, x \in S}

\* Rows that repeat a date's index entry after its first row
DupRows == [type : {"buy", "sell"}, ratio : {FullRatio}, amount : {NoAmount}]

\* The rows a raw signal frame can carry for one date: none, or a first row
\* followed by fewer than MaxDup rows of the same index entry
SignalFrames ==
    {<<>>} \cup {<<r>> \o dup : r \in SignalRows, dup \in SeqsUpTo(DupRows, MaxDup - 1)}

Min(a, b) == IF a < b THEN a ELSE b

\* signals = signals[~signals.index.duplicated(keep='first')], for one date
DropDuplicated(rows) == IF rows = <<>> THEN <<>> ELSE <<Head(rows)>>

\* buy_cash = cash * ratio if amount is None else min(amount, cash)
BuyCash(c, r) ==
    IF r.amount = NoAmount THEN MulDiv(c, r.ratio.num, r.ratio.den) ELSE Min(r.amount, c)

\* coin_to_buy = buy_cash / current_price
EngCoinToBuy(buy_cash, p) == MulDiv(buy_cash, CoinScale, p)

\* coin_to_sell = coin_amount * ratio if amount is None else min(amount, coin_amount)
CoinToSell(coin, r) ==
    IF r.amount = NoAmount THEN MulDiv(coin, r.ratio.num, r.ratio.den) ELSE Min(r.amount, coin)

\* sell_cash = coin_to_sell * current_price
SellCash(coin_to_sell, p) == CoinValue(coin_to_sell, p)

\* Mutant of ApplyRow: a buy without cash and a sell without coins are
\* executed and recorded like any other
ApplyRow_NoGuards(st, r, p) ==
    IF r.type = "buy"
    THEN LET buy_cash == BuyCash(st.cash, r)
             coin_to_buy == EngCoinToBuy(buy_cash, p)
         IN [st EXCEPT !.cash = st.cash - buy_cash,
                       !.coin = st.coin + coin_to_buy,
                       !.trades = Append(st.trades, [date |-> st.date, type |-> "buy",
                                                     price |-> p, amount |-> buy_cash,
                                                     coin_amount |-> coin_to_buy])]
    ELSE IF r.type = "sell"
    THEN LET coin_to_sell == CoinToSell(st.coin, r)
             sell_cash == SellCash(coin_to_sell, p)
         IN [st EXCEPT !.cash = st.cash + sell_cash,
                       !.coin = st.coin - coin_to_sell,
                       !.trades = Append(st.trades, [date |-> st.date, type |-> "sell",
                                                     price |-> p, amount |-> sell_cash,
                                                     coin_amount |-> coin_to_sell])]
    ELSE st

\* One pass of the body of `for _, signal_row in signals_on_date.iterrows()`
\* on the loop's date st.date
ApplyRow(st, r, p) ==
    IF r.type = "buy" /\ st.cash > 0
    THEN LET buy_cash == BuyCash(st.cash, r)
             coin_to_buy == EngCoinToBuy(buy_cash, p)
         IN [st EXCEPT !.cash = st.cash - buy_cash,
                       !.coin = st.coin + coin_to_buy,
                       !.trades = Append(st.trades, [date |-> st.date, type |-> "buy",
                                                     price |-> p, amount |-> buy_cash,
                                                     coin_amount |-> coin_to_buy])]
    ELSE IF r.type = "sell" /\ st.coin > 0
    THEN LET coin_to_sell == CoinToSell(st.coin, r)
             sell_cash == SellCash(coin_to_sell, p)
         IN [st EXCEPT !.cash = st.cash + sell_cash,
                       !.coin = st.coin - coin_to_sell,
                       !.trades = Append(st.trades, [date |-> st.date, type |-> "sell",
                                                     price |-> p, amount |-> sell_cash,
                                                     coin_amount |-> coin_to_sell])]
    ELSE st

\* The loop over the rows found for the date
RECURSIVE ApplyRows(_, _, _)
ApplyRows(st, rows, p) ==
    IF rows = <<>> THEN st
    ELSE ApplyRows(ApplyRow(st, Head(rows), p), Tail(rows), p)

\* Mutant of SignalsOnDate: duplicated index entries are not dropped
SignalsOnDate_KeepAll(rows) == rows

\* signals.loc[date] on the frame as backtest_strategy uses it
SignalsOnDate(rows) == DropDuplicated(rows)

\* The body of the loop for one date with close p whose raw frame rows are rows
EngBody(p, rows) ==
    /\ eng_row' = eng_row + 1
    /\ eng_price' = p
    /\ eng_signals' = rows
    /\ eng_cash_hist' = eng_cash
    /\ eng_coin_hist' = eng_coin
    /\ LET st == ApplyRows([date |-> eng_row + 1, cash |-> eng_cash, coin |-> eng_coin,
                            trades |-> eng_trades],
                           SignalsOnDate(rows), p)
       IN /\ eng_cash' = st.cash
          /\ eng_coin' = st.coin
          /\ eng_trades' = st.trades

\* One date of a run on an arbitrary frame, within the bounds of the model
EngLoopBody(p, rows) ==
    /\ eng_row < EngRows
    /\ eng_cash + CoinValue(eng_coin, p) <= MaxAsset
    /\ EngBody(p, rows)

EngStart ==
    /\ eng_row = 0
    /\ eng_price = 0
    /\ eng_signals = <<>>
    /\ eng_cash = initial_capital
    /\ eng_coin = 0
    /\ eng_trades = <<>>
    /\ eng_cash_hist = 0
    /\ eng_coin_hist = 0

----------------------------------------------------------------------------
(* src/utils/cache_manager.py CacheManager                                 *)

\* key_parts dicts, as their items in insertion order; an item is
\* <<name, value>>, names and values numbered
KeyParts == { << <<2, 2>>, <<1, 1>> >>,
              << <<1, 2>> >> }

\* Tuple order of Python on (name, value) items
ItemLess(a, b) == a[1] < b[1] \/ (a[1] = b[1] /\ a[2] < b[2])

\* sorted(key_parts.items())
RECURSIVE SortedItems(_)
SortedItems(items) ==
    IF items = <<>> THEN <<>>
    ELSE LET least == CHOOSE k \in 1 .. Len(items) :
                          \A j \in 1 .. Len(items) : ~ItemLess(items[j], items[k])
             rest == [j \in 1 .. (Len(items) - 1) |->
                          IF j < least THEN items[j] ELSE items[j + 1]]
         IN <<items[least]>> \o SortedItems(rest)

\* Mutant of GenerateCacheKey: the items are not sorted before hashing
GenerateCacheKey_Unsorted(key_parts) == key_parts

\* _generate_cache_key: the MD5 digest of the JSON text of the sorted items
\* (the digest stands for the text it is computed from)
GenerateCacheKey(key_parts) == SortedItems(key_parts)

\* The key_parts of KeyParts with their items inserted in another order
ReorderedKeyParts == { << <<1, 1>>, <<2, 2>> >> }

CacheKeys == {GenerateCacheKey(kp) : kp \in KeyParts \cup ReorderedKeyParts}

Extensions == {"json", "parquet"}

\* get_cache_path(cache_key, extension)
GetCachePath(cache_key, extension) == <<cache_key, extension>>

Paths == CacheKeys \X (Extensions \cup {"meta.json"})

\* Payloads: DataFrames, and dicts whose keys are all strings or are ints
Frames == [kind : {"frame"}, keys : {"columns"}, v : {1}]
Dicts == [kind : {"dict"}, keys : {"str", "int"}, v : {1}]
Payloads == Frames \cup Dicts

\* Optional[timedelta] arguments, in seconds; NoMaxAge is None
NoMaxAge == -1
MaxAges == {NoMaxAge, 0, 1}
\* max_age arguments given to save_to_cache
SaveMaxAges == {NoMaxAge, 1}

\* Truth value of an Optional[timedelta]: None and timedelta(0) are false
Truthy(max_age) == max_age # NoMaxAge /\ max_age # 0

\* The None result, and a path that holds no file
None == [kind |-> "None"]
NoFile == [fmt |-> "absent"]

\* json.dump followed by json.load of a dict: keys come back as strings
JsonRoundTrip(data) == [data EXCEPT !.keys = "str"]

\* metadata = {"created_at": ..., "max_age": ..., "key_parts": ...}
Metadata(key_parts, max_age) ==
    [created_at |-> now,
     max_age |-> IF Truthy(max_age) THEN max_age ELSE NoMaxAge,
     key_parts |-> key_parts]

\* Mutant of WriteFile: a file that exists is left as it is
WriteFile_KeepExisting(fs, path, content) ==
    IF fs[path] # NoFile THEN fs ELSE [fs EXCEPT ![path] = content]

\* open(path, 'w') and the dump into it (to_parquet likewise): the file is
\* replaced whole
WriteFile(fs, path, content) == [fs EXCEPT ![path] = content]

\* The files after save_to_cache(data, key_parts, extension, max_age)
SavedFiles(fs, data, key_parts, extension, max_age) ==
    LET cache_key == GenerateCacheKey(key_parts)
        cache_path == GetCachePath(cache_key, extension)
        metadata == Metadata(key_parts, max_age)
    IN IF data.kind = "frame"
       THEN WriteFile(WriteFile(fs, cache_path,
                                [fmt |-> "parquet", data |-> data, ctime |-> now]),
                      GetCachePath(cache_key, "meta.json"),
                      [fmt |-> "json", metadata |-> metadata, ctime |-> now])
       ELSE WriteFile(fs, cache_path,
                      [fmt |-> "json", data |-> JsonRoundTrip(data),
                       metadata |-> metadata, ctime |-> now])

\* Mutant of Expired: every entry counts as expired
Expired_Always(created_at, max_age) == TRUE

\* if max_age and cache_age > max_age
Expired(created_at, max_age) == Truthy(max_age) /\ now - created_at > max_age

\* The outcome of a call in which an exception was raised
Raised == [kind |-> "raised"]

\* The body of the try block of load_from_cache(key_parts, extension, max_age):
\* the value it returns, or Raised
LoadBody(fs, key_parts, extension, max_age) ==
    LET cache_key == GenerateCacheKey(key_parts)
        file == fs[GetCachePath(cache_key, extension)]
        meta == fs[GetCachePath(cache_key, "meta.json")]
    IN IF file = NoFile THEN None
       ELSE IF extension = "parquet"
       THEN IF meta = NoFile THEN None
            ELSE IF meta.fmt # "json" THEN Raised     \* json.load raises
            ELSE IF Expired(meta.metadata.created_at, max_age) THEN None
            ELSE IF file.fmt # "parquet" THEN Raised  \* read_parquet raises
            ELSE file.data
       ELSE IF file.fmt # "json" THEN Raised          \* json.load raises
            ELSE IF Expired(file.metadata.created_at, max_age) THEN None
            ELSE file.data

\* The handler without its return: the exception leaves the call
CatchAll_Reraise(outcome) == outcome

\* except Exception as e: ... return None
CatchAll(outcome) == IF outcome = Raised THEN None ELSE outcome

\* The value load_from_cache(key_parts, extension, max_age) returns
LoadResult(fs, key_parts, extension, max_age) ==
    CatchAll(LoadBody(fs, key_parts, extension, max_age))

\* meta_path = file_path.replace(".parquet", ".meta.json")
MetaPath(path) ==
    IF path[2] = "parquet" THEN GetCachePath(path[1], "meta.json") ELSE path

\* if max_age and file_age > max_age, on a listed file that is no sidecar
Removed(fs, path, max_age) ==
    /\ path[2] # "meta.json"
    /\ fs[path] # NoFile
    /\ Truthy(max_age)
    /\ now - fs[path].ctime > max_age

\* The files after clear_cache(max_age)
ClearedFiles(fs, max_age) ==
    [path \in Paths |->
        IF Removed(fs, path, max_age) THEN NoFile
        ELSE IF \E q \in Paths : Removed(fs, q, max_age) /\ MetaPath(q) = path
        THEN NoFile
        ELSE fs[path]]

\* A record of a call: at is the time of the call, after_save is the payload of the save_to_cache call
\* made just before it on the same key_parts and extension (None when the
\* call before was no such save); replaced tells whether that save found a
\* file at its path
NoOp == [op |-> "none", key_parts |-> <<>>, extension |-> "", data |-> None,
         max_age |-> NoMaxAge, at |-> 0, result |-> None, after_save |-> None,
         replaced |-> FALSE]

Called(op) ==
    /\ n_ops < MaxOps
    /\ n_ops' = n_ops + 1
    /\ last_op' = op
    /\ UNCHANGED now

\* save_to_cache with key_parts out of keys
SaveToCacheOn(keys) ==
    \E data \in Payloads, key_parts \in keys, extension \in Extensions,
       max_age \in SaveMaxAges :
        /\ n_saves < MaxSaves
        /\ n_saves' = n_saves + 1
        /\ files' = SavedFiles(files, data, key_parts, extension, max_age)
        /\ Called([op |-> "save", key_parts |-> key_parts, extension |-> extension,
                   data |-> data, max_age |-> max_age, at |-> now,
                   result |-> None, after_save |-> None,
                   replaced |-> files[GetCachePath(GenerateCacheKey(key_parts),
                                                   extension)] # NoFile])

SaveToCache == SaveToCacheOn(KeyParts)

\* load_from_cache with key_parts out of keys
LoadFromCacheOn(keys) ==
    \E key_parts \in keys, extension \in Extensions, max_age \in MaxAges :
        /\ UNCHANGED <<files, n_saves>>
        /\ Called([op |-> "load", key_parts |-> key_parts, extension |-> extension,
                   data |-> None, max_age |-> max_age, at |-> now,
                   result |-> LoadResult(files, key_parts, extension, max_age),
                   after_save |->
                       IF /\ last_op.op = "save"
                          /\ last_op.key_parts = key_parts
                          /\ last_op.extension = extension
                       THEN last_op.data ELSE None,
                   replaced |-> last_op.replaced])

LoadFromCache == LoadFromCacheOn(KeyParts)

ClearCache ==
    \E max_age \in MaxAges :
        /\ files' = ClearedFiles(files, max_age)
        /\ UNCHANGED n_saves
        /\ Called([op |-> "clear", key_parts |-> <<>>, extension |-> "",
                   data |-> None, max_age |-> max_age, at |-> now,
                   result |-> None, after_save |-> None, replaced |-> FALSE])

\* Time passes between two calls; the clock of a run starts at its first call
Tick ==
    /\ n_ops > 0
    /\ now < MaxTime
    /\ now' = now + 1
    /\ UNCHANGED <<files, last_op, n_saves, n_ops>>

CacheStart ==
    /\ now = 0
    /\ files = [path \in Paths |-> NoFile]
    /\ last_op = NoOp
    /\ n_saves = 0
    /\ n_ops = 0

----------------------------------------------------------------------------
(* Two save_to_cache calls running at the same time on one key_parts and   *)
(* one extension. A call is three steps: the locals (cache_key, cache_path *)
(* and metadata), the payload file, and for a DataFrame the sidecar.       *)

Writers == {1, 2}

\* No concurrent call is running
NoWriters == <<>>

\* The payload of call w: the calls save different data
WriterData(w) == {[kind |-> "frame", keys |-> "columns", v |-> w],
                  [kind |-> "dict", keys |-> "str", v |-> w]}

\* Lines 81-89 of call w: cache_key, cache_path and metadata
SaveLocals(w) ==
    /\ writers[w].pc = "start"
    /\ \E max_age \in SaveMaxAges :
           writers' = [writers EXCEPT ![w].pc = "payload",
                                      ![w].metadata =
                                          Metadata(writers[w].key_parts, max_age)]
    /\ Called([NoOp EXCEPT !.op = "save", !.key_parts = writers[w].key_parts,
                           !.extension = writers[w].extension,
                           !.data = writers[w].data, !.at = now])
    /\ UNCHANGED <<files, n_saves>>

\* Line 94 (data.to_parquet) or lines 101-105 (the dump of data and metadata)
\* of call w
SavePayload(w) ==
    /\ writers[w].pc = "payload"
    /\ LET cache_path == GetCachePath(GenerateCacheKey(writers[w].key_parts),
                                      writers[w].extension)
       IN IF writers[w].data.kind = "frame"
          THEN /\ files' = WriteFile(files, cache_path,
                                     [fmt |-> "parquet", data |-> writers[w].data,
                                      ctime |-> now])
               /\ writers' = [writers EXCEPT ![w].pc = "sidecar"]
          ELSE /\ files' = WriteFile(files, cache_path,
                                     [fmt |-> "json",
                                      data |-> JsonRoundTrip(writers[w].data),
                                      metadata |-> writers[w].metadata,
                                      ctime |-> now])
               /\ writers' = [writers EXCEPT ![w].pc = "done"]
    /\ UNCHANGED <<now, last_op, n_saves, n_ops>>

\* Lines 96-98 of call w: the metadata sidecar
SaveSidecar(w) ==
    /\ writers[w].pc = "sidecar"
    /\ files' = WriteFile(files,
                          GetCachePath(GenerateCacheKey(writers[w].key_parts), "meta.json"),
                          [fmt |-> "json", metadata |-> writers[w].metadata,
                           ctime |-> now])
    /\ writers' = [writers EXCEPT ![w].pc = "done"]
    /\ UNCHANGED <<now, last_op, n_saves, n_ops>>

WritersStart ==
    \E key_parts \in KeyParts, extension \in Extensions :
        writers \in {[w \in Writers |->
                         [pc |-> "start", key_parts |-> key_parts,
                          extension |-> extension, data |-> d[w],
                          metadata |-> Metadata(key_parts, NoMaxAge)]] :
                     d \in [Writers -> UNION {WriterData(w) : w \in Writers}]}
        /\ \A w \in Writers : writers[w].data \in WriterData(w)

----------------------------------------------------------------------------
(* src/api/upbit_api.py get_backtest_data: the read-through cache in front *)
(* of get_historical_data. The clock counts hours here.                    *)

\* max_age=timedelta(hours=1), given to load_from_cache and save_to_cache
OneHour == 1

\* What get_historical_data returns: a frame (the market moves, so two calls
\* may be given different frames), or None when pyupbit supplies no data or
\* an exception is caught
ProviderFrames == [kind : {"frame"}, keys : {"columns"}, v : {1, 2}]
ProviderFailures ==
    [kind : {"None"},
     cause : {"unknown ticker", "invalid period", "invalid interval", "exception"}]
ProviderOutcomes == ProviderFrames \cup ProviderFailures

NoFetch == [at |-> -1, frame |-> None]
NoGet == [key_parts |-> <<>>, at |-> 0, cached |-> None, outcome |-> None,
          result |-> None]

\* Mutant of Supplied: the None check on df is missing
Supplied_Always(df) == TRUE

\* if df is None: return None
Supplied(df) == df.kind # "None"

\* get_backtest_data for the request whose cache_key dict is key_parts
GetBacktestData(key_parts) ==
    LET cached == LoadResult(files, key_parts, "parquet", OneHour)
        load == [NoOp EXCEPT !.op = "load", !.key_parts = key_parts,
                             !.extension = "parquet", !.max_age = OneHour,
                             !.at = now, !.result = cached]
    IN /\ n_gets < MaxGets
       /\ n_gets' = n_gets + 1
       /\ UNCHANGED now
       /\ IF cached # None
          THEN /\ last_get' = [key_parts |-> key_parts, at |-> now,
                               cached |-> cached, outcome |-> None,
                               result |-> cached]
               /\ n_ops' = n_ops + 1
               /\ last_op' = load
               /\ UNCHANGED <<files, n_saves, n_fetch, fetched>>
          ELSE \E df \in ProviderOutcomes :
                  /\ n_fetch' = n_fetch + 1
                  /\ IF Supplied(df)
                     THEN /\ files' = SavedFiles(files, df, key_parts, "parquet", OneHour)
                          /\ n_ops' = n_ops + 2
                          /\ n_saves' = n_saves + 1
                          /\ last_op' = [NoOp EXCEPT !.op = "save",
                                                     !.key_parts = key_parts,
                                                     !.extension = "parquet",
                                                     !.data = df,
                                                     !.max_age = OneHour,
                                                     !.at = now]
                          /\ last_get' = [key_parts |-> key_parts, at |-> now,
                                          cached |-> None, outcome |-> df,
                                          result |-> df]
                     ELSE /\ n_ops' = n_ops + 1
                          /\ last_op' = load
                          /\ last_get' = [key_parts |-> key_parts, at |-> now,
                                          cached |-> None, outcome |-> df,
                                          result |-> None]
                          /\ UNCHANGED <<files, n_saves>>
                  /\ fetched' = IF df.kind = "frame"
                                THEN [fetched EXCEPT ![GenerateCacheKey(key_parts)] =
                                          [at |-> now, frame |-> df]]
                                ELSE fetched

\* The calls inside save_to_cache of a frame at which a write can fail
\* (no directory, no space, no parquet engine, no permission)
WriteFailures == {"to_parquet", "open(metadata_path)"}

\* The files a save_to_cache of a frame leaves when the call named by stage
\* raises: what was written before it stays
FailedSaveFiles(fs, data, key_parts, stage) ==
    IF stage = "to_parquet" THEN fs
    ELSE WriteFile(fs, GetCachePath(GenerateCacheKey(key_parts), "parquet"),
                   [fmt |-> "parquet", data |-> data, ctime |-> now])

\* save_to_cache: except Exception as e: logger.error(...); raise
SaveHandler(outcome) == outcome

\* get_backtest_data: except Exception as e: logger.error(...); return None
DataHandler(outcome) == IF outcome = Raised THEN None ELSE outcome

\* get_backtest_data for key_parts when the cache misses, the provider
\* supplies a frame and the write of the cache entry raises
GetBacktestDataWriteFails(key_parts) ==
    \E df \in ProviderFrames, stage \in WriteFailures :
        LET saved == SaveHandler(Raised)
            returned == DataHandler(IF saved = Raised THEN Raised ELSE df)
        IN /\ n_gets < MaxGets
           /\ LoadResult(files, key_parts, "parquet", OneHour) = None
           /\ n_gets' = n_gets + 1
           /\ n_fetch' = n_fetch + 1
           /\ files' = FailedSaveFiles(files, df, key_parts, stage)
           /\ n_ops' = n_ops + 2
           /\ last_op' = [NoOp EXCEPT !.op = "save", !.key_parts = key_parts,
                                      !.extension = "parquet", !.data = df,
                                      !.max_age = OneHour, !.at = now,
                                      !.result = saved]
           /\ last_get' = [key_parts |-> key_parts, at |-> now, cached |-> None,
                           outcome |-> df, result |-> returned]
           /\ fetched' = [fetched EXCEPT ![GenerateCacheKey(key_parts)] =
                             [at |-> now, frame |-> df]]
           /\ UNCHANGED <<now, n_saves>>

DataStart ==
    /\ n_gets = 0
    /\ n_fetch = 0
    /\ last_get = NoGet
    /\ fetched = [key \in CacheKeys |-> NoFetch]

----------------------------------------------------------------------------
(* src/strategies and src/indicators: a strategy applied to a frame.       *)
(* A frame is its 'close' column, a column a sequence with one cell per    *)
(* row, oldest first. Rolling means and bands are kept exact: a cell holds *)
(* the window sum and the spread of the window instead of a rounded float, *)
(* and comparisons are made on these without rounding.                     *)

\* The missing value of an integer column; it compares false with every
\* value under <, > and ==, and true under !=
NaN == -1000

\* a > b, a < b and a != b on the cells of integer columns
Gt(a, b) == a # NaN /\ b # NaN /\ a > b
Lt(a, b) == a # NaN /\ b # NaN /\ a < b
Ne(a, b) == a = NaN \/ b = NaN \/ a # b

\* series[i - n + 1] + ... + series[i]
RECURSIVE WindowSum(_, _, _)
WindowSum(series, i, n) ==
    IF n = 0 THEN 0 ELSE series[i] + WindowSum(series, i - 1, n - 1)

\* the same sum over the squares
RECURSIVE WindowSquares(_, _, _)
WindowSquares(series, i, n) ==
    IF n = 0 THEN 0 ELSE series[i] * series[i] + WindowSquares(series, i - 1, n - 1)

\* A cell of a rolling column: the value sum / n + k * std, where std is the
\* sample standard deviation sqrt(spread / (n * (n - 1))) of the window and
\* spread = n * (sum of squares) - sum^2 (left 0 where k = 0 and the value
\* is the mean alone); nan in the first n - 1 rows
Missing == [nan |-> TRUE, sum |-> 0, spread |-> 0, n |-> 1, k |-> 0]

\* series.rolling(window).mean() + k * series.rolling(window).std()
Rolling(series, window, k) ==
    [i \in 1 .. Len(series) |->
        IF i < window THEN Missing
        ELSE LET sum == WindowSum(series, i, window)
             IN [nan |-> FALSE, sum |-> sum,
                 spread |-> IF k = 0 THEN 0
                            ELSE window * WindowSquares(series, i, window) - sum * sum,
                 n |-> window, k |-> k]]

\* sma(series, window)
Sma(series, window) == Rolling(series, window, 0)

\* Mutant of MeanGt: the comparison is reversed
MeanGt_Reversed(x, y) == ~x.nan /\ ~y.nan /\ x.sum * y.n < y.sum * x.n

\* x > y and x < y on the cells of two moving averages
MeanGt(x, y) == ~x.nan /\ ~y.nan /\ x.sum * y.n > y.sum * x.n
MeanLt(x, y) == ~x.nan /\ ~y.nan /\ x.sum * y.n < y.sum * x.n

\* c < x and c > x for a close c and a rolling cell x: with d = c * n - sum,
\* c < sum / n + k * std  <=>  d < k * sqrt(n * spread / (n - 1))
CloseLt(c, x) ==
    /\ ~x.nan
    /\ LET d == c * x.n - x.sum
           d2 == d * d * (x.n - 1)
           k2 == x.k * x.k * x.n * x.spread
       IN IF x.k = 0 THEN d < 0
          ELSE IF x.k > 0 THEN d < 0 \/ d2 < k2
          ELSE d < 0 /\ d2 > k2
CloseGt(c, x) ==
    /\ ~x.nan
    /\ LET d == c * x.n - x.sum
           d2 == d * d * (x.n - 1)
           k2 == x.k * x.k * x.n * x.spread
       IN IF x.k = 0 THEN d > 0
          ELSE IF x.k > 0 THEN d > 0 /\ d2 > k2
          ELSE d > 0 \/ d2 < k2

\* bollinger_bands(series, window, num_std): the tuple it returns
BollingerBands(series, window, num_std) ==
    LET middle_band == Rolling(series, window, 0)
        upper_band == Rolling(series, window, num_std)
        lower_band == Rolling(series, window, -num_std)
    IN <<middle_band, upper_band, lower_band>>

\* series.diff()
Diff(series) ==
    [i \in 1 .. Len(series) |-> IF i = 1 THEN NaN ELSE series[i] - series[i - 1]]

\* df[valid_idx].index[0] if not df[valid_idx].empty else None (0 is None)
FirstValidIdx(valid_idx) ==
    IF \E i \in 1 .. Len(valid_idx) : valid_idx[i]
    THEN CHOOSE i \in 1 .. Len(valid_idx) :
             valid_idx[i] /\ \A j \in 1 .. (i - 1) : ~valid_idx[j]
    ELSE 0

\* df['position'] = df['signal'].diff(), then
\* df.loc[first_valid_idx, 'position'] = df.loc[first_valid_idx, 'signal']
PositionColumn(signal_col, first_valid_idx) ==
    [i \in 1 .. Len(signal_col) |->
        IF i = first_valid_idx THEN signal_col[i] ELSE Diff(signal_col)[i]]

\* The strategy objects: SMAStrategy, BollingerBandsStrategy, BuyAndHoldStrategy
SMA(short_window, long_window) ==
    [kind |-> "sma", short_window |-> short_window, long_window |-> long_window]
BB(window, std_dev) == [kind |-> "bb", window |-> window, std_dev |-> std_dev]
BuyAndHold == [kind |-> "buy_and_hold"]
NoStrategy == [kind |-> "none"]

Strategies == {SMA(2, 5), BB(5, 1), BuyAndHold}

\* get_min_required_rows()
GetMinRequiredRows(s) ==
    CASE s.kind = "sma" -> s.long_window + 5
      [] s.kind = "bb" -> s.window + 5
      [] s.kind = "rsi" -> s.window + 10
      [] s.kind = "buy_and_hold" -> 2
      [] OTHER -> 30

\* raise ValueError(...)
ValueError == [kind |-> "ValueError"]

\* Mutant of ValidateData: the row count is not checked
ValidateData_NoCheck(s, frame) == [kind |-> "frame", close |-> frame]

\* validate_data(df)
ValidateData(s, frame) ==
    IF Len(frame) < GetMinRequiredRows(s)
    THEN ValueError
    ELSE [kind |-> "frame", close |-> frame]

\* SMAStrategy.apply after validate_data
SMAApply(s, close) ==
    LET short_ma == Sma(close, s.short_window)
        long_ma == Sma(close, s.long_window)
        valid_idx == [i \in 1 .. Len(close) |-> ~short_ma[i].nan /\ ~long_ma[i].nan]
        signal_col == [i \in 1 .. Len(close) |->
                          IF valid_idx[i] /\ MeanLt(short_ma[i], long_ma[i]) THEN -1
                          ELSE IF valid_idx[i] /\ MeanGt(short_ma[i], long_ma[i]) THEN 1
                          ELSE 0]
    IN [kind |-> "frame", close |-> close, signal |-> signal_col,
        position |-> PositionColumn(signal_col, FirstValidIdx(valid_idx))]

\* BollingerBandsStrategy.apply after validate_data; the three columns are
\* assigned from the tuple in the order upper_band, ma, lower_band
BBApply(s, close) ==
    LET bands == BollingerBands(close, s.window, s.std_dev)
        upper_band == bands[1]
        ma == bands[2]
        lower_band == bands[3]
        valid_idx == [i \in 1 .. Len(close) |->
                         ~ma[i].nan /\ ~upper_band[i].nan /\ ~lower_band[i].nan]
        signal_col == [i \in 1 .. Len(close) |->
                          IF valid_idx[i] /\ CloseGt(close[i], upper_band[i]) THEN -1
                          ELSE IF valid_idx[i] /\ CloseLt(close[i], lower_band[i]) THEN 1
                          ELSE 0]
    IN [kind |-> "frame", close |-> close, signal |-> signal_col,
        position |-> PositionColumn(signal_col, FirstValidIdx(valid_idx))]

\* BuyAndHoldStrategy.apply after validate_data
BuyAndHoldApply(s, close) ==
    LET signal_col == [i \in 1 .. Len(close) |-> 1]
    IN [kind |-> "frame", close |-> close, signal |-> signal_col,
        position |-> PositionColumn(signal_col, IF close = <<>> THEN 0 ELSE 1)]

\* ---- src/indicators/momentum.py rsi and src/strategies/rsi_strategy.py ----

\* delta.where(delta > 0, 0) and -delta.where(delta < 0, 0) for
\* delta = series.diff(): the first row, where delta is nan, holds 0
Gain(series) ==
    [i \in 1 .. Len(series) |->
        IF i > 1 /\ series[i] > series[i - 1] THEN series[i] - series[i - 1] ELSE 0]
Loss(series) ==
    [i \in 1 .. Len(series) |->
        IF i > 1 /\ series[i] < series[i - 1] THEN series[i - 1] - series[i] ELSE 0]

RECURSIVE Pow(_, _)
Pow(b, e) == IF e = 0 THEN 1 ELSE b * Pow(b, e - 1)

\* series.ewm(com=window-1).mean() at row i is the weighted sum of rows
\* 1 .. i with weights ((window - 1) / window)^(i - j) over the sum of the
\* weights (adjust=True); EwmSum is the weighted sum times window^(i - 1)
RECURSIVE EwmSum(_, _, _)
EwmSum(series, window, i) ==
    IF i = 0 THEN 0
    ELSE (window - 1) * EwmSum(series, window, i - 1) + Pow(window, i - 1) * series[i]

\* A cell of the rsi column: the weighted sums of gain and of loss and the
\* sum of the weights, all on the scale window^(i - 1). The value is
\* 100 - 100 / (1 + rs) with rs = avg_gain / np.maximum(avg_loss, 1e-10)
NoRsi == [nan |-> TRUE, gain |-> 0, loss |-> 0, weight |-> 1]

\* rsi(series, window); min_periods=window leaves the first window - 1 rows nan
Rsi(series, window) ==
    LET gain == Gain(series)
        loss == Loss(series)
        ones == [j \in 1 .. Len(series) |-> 1]
    IN [i \in 1 .. Len(series) |->
           IF Len(series) <= window \/ i < window THEN NoRsi
           ELSE [nan |-> FALSE,
                 gain |-> EwmSum(gain, window, i),
                 loss |-> EwmSum(loss, window, i),
                 weight |-> EwmSum(ones, window, i)]]

\* avg_loss is 0 and the floor 1e-10 divides a positive avg_gain: the value
\* lies within 1e-6 below 100 and grows with avg_gain
Saturated(x) == x.loss = 0 /\ x.gain > 0

\* The value of a cell that is not saturated, as numerator and denominator
\* of rs / (1 + rs) = avg_gain / (avg_gain + avg_loss); 0 where both are 0
RsiNum(x) == x.gain
RsiDen(x) == IF x.gain + x.loss = 0 THEN 1 ELSE x.gain + x.loss

\* x < y and x > y on two cells of the rsi column
RsiLt(x, y) ==
    /\ ~x.nan
    /\ ~y.nan
    /\ IF Saturated(x) THEN Saturated(y) /\ x.gain * y.weight < y.gain * x.weight
       ELSE IF Saturated(y) THEN TRUE
       ELSE RsiNum(x) * RsiDen(y) < RsiNum(y) * RsiDen(x)
RsiGt(x, y) == RsiLt(y, x)

\* x > level and x < level for a cell of the rsi column and a level in percent
RsiAbove(x, level) ==
    ~x.nan /\ (Saturated(x) \/ 100 * RsiNum(x) > level * RsiDen(x))
RsiBelow(x, level) ==
    ~x.nan /\ ~Saturated(x) /\ 100 * RsiNum(x) < level * RsiDen(x)

\* The rows of series.iloc[start:stop] for 0-based bounds with stop >= 0: a
\* negative start counts from the end of the series
ILocRows(series, start, stop) ==
    LET from == IF start >= 0 THEN start
                ELSE IF start + Len(series) >= 0 THEN start + Len(series) ELSE 0
    IN {j \in 1 .. Len(series) : from < j /\ j <= stop}

\* The RSIStrategy object
RSI(window, overbought, oversold, exit_overbought, exit_oversold, price_check_period, min_price_drop, min_price_rise, min_holding_period) ==
    [kind |-> "rsi", window |-> window, overbought |-> overbought,
     oversold |-> oversold, exit_overbought |-> exit_overbought,
     exit_oversold |-> exit_oversold, price_check_period |-> price_check_period,
     min_price_drop |-> min_price_drop, min_price_rise |-> min_price_rise,
     min_holding_period |-> min_holding_period]

\* price_drop < 0 and abs(price_drop) >= min_price_drop at row i, for
\* price_drop = (close[i] / close.iloc[i-period:i].max() - 1) * 100; the
\* max of an empty slice is nan and fails both comparisons
PriceDropped(s, close, i) ==
    LET rows == ILocRows(close, i - 1 - s.price_check_period, i - 1)
    IN /\ rows # {}
       /\ LET highest == CHOOSE m \in {close[j] : j \in rows} :
                             \A j \in rows : close[j] <= m
          IN /\ close[i] < highest
             /\ (highest - close[i]) * 100 >= s.min_price_drop * highest

\* price_rise > 0 and price_rise >= min_price_rise at row i, for
\* price_rise = (close[i] / close.iloc[i-period:i].min() - 1) * 100
PriceRose(s, close, i) ==
    LET rows == ILocRows(close, i - 1 - s.price_check_period, i - 1)
    IN /\ rows # {}
       /\ LET lowest == CHOOSE m \in {close[j] : j \in rows} :
                            \A j \in rows : close[j] >= m
          IN /\ close[i] > lowest
             /\ (close[i] - lowest) * 100 >= s.min_price_rise * lowest

\* The signal that the first loop of RSIStrategy.apply leaves at row i
RSIRawSignal(s, close, rsi_col, i) ==
    IF i = 1 \/ rsi_col[i].nan \/ rsi_col[i - 1].nan THEN 0
    ELSE IF /\ RsiBelow(rsi_col[i - 1], s.oversold)
            /\ RsiGt(rsi_col[i], rsi_col[i - 1])
            /\ RsiAbove(rsi_col[i], s.oversold)
    THEN (IF PriceDropped(s, close, i) THEN 1 ELSE 0)
    ELSE IF /\ RsiAbove(rsi_col[i - 1], s.overbought)
            /\ RsiLt(rsi_col[i], rsi_col[i - 1])
            /\ RsiBelow(rsi_col[i], s.overbought)
    THEN (IF PriceRose(s, close, i) THEN -1 ELSE 0)
    ELSE 0

\* The second loop of apply from row i on, last_trade_idx being the row of
\* the signal kept last (0: none yet): a signal closer than
\* min_holding_period rows to it is set to 0
RECURSIVE HoldingFilter(_, _, _, _, _)
HoldingFilter(signal_col, valid_idx, min_holding_period, i, last_trade_idx) ==
    IF i > Len(signal_col) THEN <<>>
    ELSE IF ~valid_idx[i] \/ signal_col[i] = 0
    THEN <<signal_col[i]>>
         \o HoldingFilter(signal_col, valid_idx, min_holding_period, i + 1, last_trade_idx)
    ELSE IF last_trade_idx >= 1 /\ i - last_trade_idx < min_holding_period
    THEN <<0>>
         \o HoldingFilter(signal_col, valid_idx, min_holding_period, i + 1, last_trade_idx)
    ELSE <<signal_col[i]>>
         \o HoldingFilter(signal_col, valid_idx, min_holding_period, i + 1, i)

\* RSIStrategy.apply after validate_data
RSIApply(s, close) ==
    LET rsi_col == Rsi(close, s.window)
        valid_idx == [i \in 1 .. Len(close) |-> ~rsi_col[i].nan]
        raw == [i \in 1 .. Len(close) |-> RSIRawSignal(s, close, rsi_col, i)]
        signal_col == IF s.min_holding_period > 0
                      THEN HoldingFilter(raw, valid_idx, s.min_holding_period, 1, 0)
                      ELSE raw
        first_valid_idx ==
            FirstValidIdx([i \in 1 .. Len(close) |-> valid_idx[i] /\ signal_col[i] # 0])
    IN [kind |-> "frame", close |-> close, signal |-> signal_col,
        position |-> PositionColumn(signal_col, first_valid_idx), rsi |-> rsi_col]

\* strategy.apply(df): the frame it returns, or the error it raises
StrategyApply(s, frame) ==
    LET valid == ValidateData(s, frame)
    IN IF valid.kind = "ValueError" THEN valid
       ELSE CASE s.kind = "sma" -> SMAApply(s, valid.close)
              [] s.kind = "bb" -> BBApply(s, valid.close)
              [] s.kind = "rsi" -> RSIApply(s, valid.close)
              [] OTHER -> BuyAndHoldApply(s, valid.close)

\* A row of a signal frame, with the index entry it stands at
SignalRow(date, type) ==
    [date |-> date, type |-> type, ratio |-> FullRatio, amount |-> NoAmount]

\* The rows of a signal frame whose types, per index entry of df, are types
\* ("none": the entry has no row), from entry from on
RECURSIVE RowsFrom(_, _)
RowsFrom(types, from) ==
    IF from > Len(types) THEN <<>>
    ELSE (IF types[from] = "none" THEN <<>> ELSE <<SignalRow(from, types[from])>>)
         \o RowsFrom(types, from + 1)

\* SMAStrategy.generate_signals: buys where position > 0, sells where
\* position < 0, concatenated and sorted by index
SMAGenerateSignals(frame) ==
    RowsFrom([i \in 1 .. Len(frame.close) |->
                 IF Gt(frame.position[i], 0) THEN "buy"
                 ELSE IF Lt(frame.position[i], 0) THEN "sell"
                 ELSE "none"], 1)

\* BollingerBandsStrategy.generate_signals: the rows where position != 0,
\* typed np.where(position > 0, 'buy', 'sell'); RSIStrategy.generate_signals
\* is the same code
BBGenerateSignals(frame) ==
    RowsFrom([i \in 1 .. Len(frame.close) |->
                 IF ~Ne(frame.position[i], 0) THEN "none"
                 ELSE IF Gt(frame.position[i], 0) THEN "buy"
                 ELSE "sell"], 1)

\* BuyAndHoldStrategy.generate_signals: a buy at the first index entry
BuyAndHoldGenerateSignals(frame) ==
    RowsFrom([i \in 1 .. Len(frame.close) |-> IF i = 1 THEN "buy" ELSE "none"], 1)

\* strategy.generate_signals(df) on a frame returned by apply
GenerateSignals(s, frame) ==
    CASE s.kind = "sma" -> SMAGenerateSignals(frame)
      [] s.kind = "bb" -> BBGenerateSignals(frame)
      [] s.kind = "rsi" -> BBGenerateSignals(frame)
      [] OTHER -> BuyAndHoldGenerateSignals(frame)

NotApplied == [kind |-> "none"]
NotGenerated == [kind |-> "none", rows |-> <<>>]
NoResult == [kind |-> "none", error |-> "", peak |-> 0, loss |-> 0, loss_peak |-> 1]

\* result = strategy.apply(df), called by the user of the strategy
ApplyCall ==
    /\ applied = NotApplied
    /\ applied' = StrategyApply(strategy, ohlcv)
    /\ UNCHANGED <<strategy, ohlcv, signals, result>>

\* signals = strategy.generate_signals(result)
GenerateCall ==
    /\ applied.kind = "frame"
    /\ signals = NotGenerated
    /\ signals' = [kind |-> "signals", rows |-> GenerateSignals(strategy, applied)]
    /\ UNCHANGED <<strategy, ohlcv, applied, result>>

\* The strategy_func given to the engine: apply, then generate_signals
StrategyFunc(s, frame) ==
    LET a == StrategyApply(s, frame)
    IN IF a.kind = "ValueError" THEN [kind |-> "ValueError", rows |-> <<>>]
       ELSE [kind |-> "signals", rows |-> GenerateSignals(s, a)]

\* a / b < c / d for a, c >= 0 and b, d > 0, without forming a * d
RECURSIVE FracLess(_, _, _, _)
FracLess(a, b, c, d) ==
    IF a \div b # c \div d THEN a \div b < c \div d
    ELSE IF c % d = 0 THEN FALSE
    ELSE IF a % b = 0 THEN TRUE
    ELSE FracLess(d, c % d, b, a % b)

\* backtest_strategy up to its loop: the checks on df and on the signals
BacktestStart ==
    /\ result = NoResult
    /\ applied.kind = "ValueError" \/ signals # NotGenerated
    /\ LET returned == StrategyFunc(strategy, ohlcv)
           error == IF Len(ohlcv) < 10 THEN "insufficient_data"
                    ELSE IF returned.kind = "ValueError" THEN "strategy_execution_failed"
                    ELSE IF returned.rows = <<>> THEN "no_signals_generated"
                    ELSE ""
       IN result' = [NoResult EXCEPT !.kind = IF error = "" THEN "running" ELSE "error",
                                     !.error = error]
    /\ UNCHANGED <<strategy, ohlcv, applied, signals>>
    /\ UNCHANGED engVars

\* signals.loc[date], as rows of the engine's signal frame
RowsOn(rows, date) ==
    LET on_date == SelectSeq(rows, LAMBDA r : r.date = date)
    IN [j \in 1 .. Len(on_date) |->
           [type |-> on_date[j].type, ratio |-> on_date[j].ratio,
            amount |-> on_date[j].amount]]

\* One date of backtest_strategy's loop on df with the signals that
\* strategy_func returned before the loop (the rows held in signals),
\* and the entry calculate_performance derives for that date: the asset
\* value, its running peak and the deepest drawdown (peak - asset) / peak
BacktestDate ==
    /\ result.kind = "running"
    /\ eng_row < Len(ohlcv)
    /\ LET date == eng_row + 1
           current_price == ohlcv[date]
           asset == eng_cash + CoinValue(eng_coin, current_price)
           peak == IF asset > result.peak THEN asset ELSE result.peak
           deeper == FracLess(result.loss, result.loss_peak, peak - asset, peak)
       IN /\ EngBody(current_price, RowsOn(signals.rows, date))
          /\ result' = [kind |-> IF date = Len(ohlcv) THEN "done" ELSE "running",
                        error |-> "",
                        peak |-> peak,
                        loss |-> IF deeper THEN peak - asset ELSE result.loss,
                        loss_peak |-> IF deeper THEN peak ELSE result.loss_peak]
    /\ UNCHANGED <<strategy, ohlcv, applied, signals>>

\* final_asset = cash + coin_amount * df['close'].iloc[-1]
FinalAsset == eng_cash + CoinValue(eng_coin, ohlcv[Len(ohlcv)])

\* total_trades = len(trade_history)
TotalTrades == Len(eng_trades)

StrategyIdle ==
    /\ strategy = NoStrategy
    /\ ohlcv = <<>>
    /\ applied = NotApplied
    /\ signals = NotGenerated
    /\ result = NoResult

----------------------------------------------------------------------------
(* src/strategies: StrategyRegistry, the factory create_strategy and the   *)
(* package-level create_strategy                                           *)

\* The Strategy subclasses found in the *_bt.py modules, with the value of
\* their CODE attribute ("" where the class has no CODE, NAME, DESCRIPTION)
BtClasses == {[class |-> "MACDStrategyBT", CODE |-> "macd"],
              [class |-> "SMAStrategyBT", CODE |-> ""]}

\* discover_strategies(): _strategies, as the set of its (code, class) items
DiscoverStrategies ==
    {<<c.CODE, c.class>> : c \in {b \in BtClasses : b.CODE # ""}}

\* _strategies.get(code)
DictGet(items, code) ==
    IF \E it \in items : it[1] = code
    THEN [kind |-> "class", class |-> (CHOOSE it \in items : it[1] = code)[2]]
    ELSE None

\* str.lower() on the codes a caller may give
Lower(code) == IF code = "SMA" THEN "sma" ELSE code

\* The strategies dict of factory.create_strategy
FactoryStrategies == {<<"sma", "SMAStrategy">>, <<"bb", "BollingerBandsStrategy">>,
                      <<"macd", "MACDStrategy">>, <<"rsi", "RSIStrategy">>}

\* The key lists by which factory.create_strategy filters kwargs
FilterKeys(name) ==
    CASE name = "sma" -> {"short_window", "long_window"}
      [] name = "bb" -> {"window", "std_dev"}
      [] name = "macd" -> {"short_window", "long_window", "signal_window"}
      [] name = "rsi" -> {"window", "overbought", "oversold"}
      [] OTHER -> {}

\* register_strategy_params(): the declared parameters with whole-number
\* bounds, as [name, min, max, default]
Declared(name, min, max, default) ==
    [name |-> name, min |-> min, max |-> max, default |-> default]
RegisterStrategyParams(class) ==
    CASE class = "SMAStrategy" ->
             {Declared("short_window", 2, 50, 10), Declared("long_window", 5, 200, 30)}
      [] class = "BollingerBandsStrategy" ->
             {Declared("window", 5, 100, 20)}
      [] class = "MACDStrategy" ->
             {Declared("short_window", 2, 50, 12), Declared("long_window", 3, 100, 26),
              Declared("signal_window", 2, 50, 9), Declared("min_holding_period", 0, 30, 10),
              Declared("trend_confirmation_period", 1, 10, 3),
              Declared("ma_trend_period", 10, 200, 50)}
      [] class = "RSIStrategy" ->
             {Declared("window", 2, 50, 14), Declared("overbought", 50, 90, 70),
              Declared("oversold", 10, 50, 30), Declared("exit_overbought", 40, 60, 50),
              Declared("exit_oversold", 40, 60, 50), Declared("price_check_period", 1, 30, 7),
              Declared("min_price_drop", 0, 20, 5), Declared("min_price_rise", 0, 20, 5),
              Declared("min_holding_period", 0, 30, 3)}
      [] OTHER -> {}

\* strategy_class(**params): __init__ stores what it is given and its
\* defaults for the rest, without checking any value
Construct(class, params) ==
    [kind |-> "instance", class |-> class,
     params |-> {<<d.name, IF d.name \in DOMAIN params THEN params[d.name] ELSE d.default>> :
                    d \in RegisterStrategyParams(class)}]

\* {k: v for k, v in kwargs.items() if k in keys}
Filtered(kwargs, keys) == [k \in (DOMAIN kwargs) \cap keys |-> kwargs[k]]

\* An exception raised to the caller
Exception(type) == [kind |-> "raised", type |-> type]

\* StrategyRegistry.get_strategy_class(strategy_code) on the registry reg,
\* which it fills first when it is empty
GetStrategyClass(reg, strategy_code) ==
    DictGet(IF reg = {} THEN DiscoverStrategies ELSE reg, strategy_code)

\* factory.create_strategy(strategy_name, **kwargs)
FactoryCreateStrategy(strategy_name, kwargs) ==
    LET strategy_class == DictGet(FactoryStrategies, Lower(strategy_name))
    IN IF strategy_class = None THEN None
       ELSE Construct(strategy_class.class,
                      Filtered(kwargs, FilterKeys(Lower(strategy_name))))

\* The attributes of the class StrategyRegistry
RegistryAttributes == {"register", "discover_strategies", "get_strategy_class",
                       "get_available_strategies"}

\* strategies.create_strategy(strategy_code, **kwargs): it calls
\* StrategyRegistry.create_strategy and falls back on the factory on None
PackageCreateStrategy(strategy_code, kwargs) ==
    IF "create_strategy" \notin RegistryAttributes
    THEN Exception("AttributeError")
    ELSE FactoryCreateStrategy(strategy_code, kwargs)

MaxCalls == 2          \* lookup and creation calls of one run

StrategyCodes == {"sma", "SMA", "bb", "macd", "rsi", "sma_bt", "unknown"}
KwargKeys == {"short_window", "min_holding_period", "bogus"}
KwargValues == {1, 12, 500}
Kwargs == UNION {[keys -> KwargValues] : keys \in SUBSET KwargKeys}

NoCall == [fn |-> "none", code |-> "", kwargs |-> <<>>, outcome |-> None]

\* A call of get_strategy_class
RegistryLookup ==
    /\ n_calls < MaxCalls
    /\ \E code \in StrategyCodes :
           last_call' = [fn |-> "get_strategy_class", code |-> code, kwargs |-> <<>>,
                         outcome |-> GetStrategyClass(registry, code)]
    /\ registry' = IF registry = {} THEN DiscoverStrategies ELSE registry
    /\ n_calls' = n_calls + 1

\* A call of factory.create_strategy
FactoryCreate ==
    /\ n_calls < MaxCalls
    /\ \E code \in StrategyCodes, kwargs \in Kwargs :
           last_call' = [fn |-> "factory.create_strategy", code |-> code,
                         kwargs |-> kwargs,
                         outcome |-> FactoryCreateStrategy(code, kwargs)]
    /\ n_calls' = n_calls + 1
    /\ UNCHANGED registry

\* A call of the package-level create_strategy
PackageCreate ==
    /\ n_calls < MaxCalls
    /\ \E code \in StrategyCodes, kwargs \in Kwargs :
           last_call' = [fn |-> "create_strategy", code |-> code, kwargs |-> kwargs,
                         outcome |-> PackageCreateStrategy(code, kwargs)]
    /\ n_calls' = n_calls + 1
    /\ UNCHANGED registry

FactoryStart ==
    /\ registry = {}
    /\ last_call = NoCall
    /\ n_calls = 0

NoReader == [pc |-> "idle"]

LateStart ==
    /\ FactoryStart
    /\ reader = NoReader

----------------------------------------------------------------------------
(* load_from_cache(key_parts, 'parquet', max_age) running while the        *)
(* concurrent save_to_cache calls write the same key_parts. The call is    *)
(* three steps: the existence checks, the sidecar with the age check, and  *)
(* read_parquet.                                                           *)

\* The call's locals once it has returned value
Returned(r, value) == [r EXCEPT !.pc = "done", !.result = value]

\* Lines 128-141: cache_key, cache_path and the two os.path.exists checks
LoadExists ==
    /\ reader.pc = "idle"
    /\ \E max_age \in {m \in MaxAges : Truthy(m)} :
           LET key_parts == writers[1].key_parts
               cache_key == GenerateCacheKey(key_parts)
               started == [pc |-> "meta", key_parts |-> key_parts,
                           max_age |-> max_age, checked_at |-> now,
                           metadata |-> None, result |-> None]
           IN reader' = IF \/ files[GetCachePath(cache_key, "parquet")] = NoFile
                           \/ files[GetCachePath(cache_key, "meta.json")] = NoFile
                        THEN Returned(started, None)
                        ELSE started

\* Lines 143-157: the sidecar is read and the entry's age is compared
LoadMeta ==
    /\ reader.pc = "meta"
    /\ LET meta == files[GetCachePath(GenerateCacheKey(reader.key_parts), "meta.json")]
       IN reader' =
              IF meta.fmt # "json" THEN Returned(reader, CatchAll(Raised))
              ELSE IF Expired(meta.metadata.created_at, reader.max_age)
              THEN Returned(reader, None)
              ELSE [reader EXCEPT !.pc = "payload", !.metadata = meta.metadata,
                                  !.checked_at = now]

\* Lines 159-166: pd.read_parquet(cache_path) and the return
LoadPayload ==
    /\ reader.pc = "payload"
    /\ LET file == files[GetCachePath(GenerateCacheKey(reader.key_parts), "parquet")]
       IN reader' = IF file.fmt # "parquet" THEN Returned(reader, CatchAll(Raised))
                    ELSE Returned(reader, file.data)

\* The state of the added components where none of them runs
ExtraStart ==
    /\ writers = NoWriters
    /\ DataStart
    /\ StrategyIdle
    /\ LateStart

----------------------------------------------------------------------------
(* The simulators on arbitrary frames. A call of either backtest_strategy  *)
(* runs to its end on its own frame: the two runs do not interleave.       *)

\* A row of an arbitrary frame given to main.py backtest_strategy
Step ==
    /\ eng_row = 0
    /\ \E p \in Prices, sig \in Signals : LoopBody(p, sig)
    /\ UNCHANGED <<engVars, scenarioVars, cacheVars, extraVars>>

\* A date of an arbitrary frame given to the engine's backtest_strategy
EngStep ==
    /\ row = 0
    /\ \E p \in Prices, rows \in SignalFrames : EngLoopBody(p, rows)
    /\ UNCHANGED <<mainVars, scenarioVars, cacheVars, extraVars>>

Init ==
    /\ MainStart(InitialCapitals)
    /\ EngStart
    /\ flat_price = 0
    /\ buy_row = 0
    /\ CacheStart
    /\ ExtraStart

Next == Step \/ EngStep

Spec == Init /\ [][Next]_vars

----------------------------------------------------------------------------
(* The round-trip scenario: a flat series whose signals are one buy        *)
(* immediately followed by one sell, given to main.py backtest_strategy.   *)

ScenarioSignal(i) ==
    IF i = buy_row THEN 1 ELSE IF i = buy_row + 1 THEN -1 ELSE 0

ScenarioStep ==
    /\ LoopBody(flat_price, ScenarioSignal(row + 1))
    /\ UNCHANGED <<engVars, scenarioVars, cacheVars, extraVars>>

InitRoundTrip ==
    /\ MainStart(ScenarioCapitals)
    /\ EngStart
    /\ flat_price \in Prices
    /\ buy_row \in 1 .. (MaxRows - 1)
    /\ CacheStart
    /\ ExtraStart

NextRoundTrip == ScenarioStep

SpecRoundTrip == InitRoundTrip /\ [][NextRoundTrip]_vars

----------------------------------------------------------------------------
(* The cache manager under arbitrary calls                                 *)

InitCache ==
    /\ MainStart(InitialCapitals)
    /\ EngStart
    /\ flat_price = 0
    /\ buy_row = 0
    /\ CacheStart
    /\ ExtraStart

Save == SaveToCache /\ UNCHANGED <<mainVars, engVars, scenarioVars, extraVars>>
Load == LoadFromCache /\ UNCHANGED <<mainVars, engVars, scenarioVars, extraVars>>
Clear == ClearCache /\ UNCHANGED <<mainVars, engVars, scenarioVars, extraVars>>
Wait == Tick /\ UNCHANGED <<mainVars, engVars, scenarioVars, extraVars>>

NextCache == Save \/ Load \/ Clear \/ Wait

SpecCache == InitCache /\ [][NextCache]_vars

----------------------------------------------------------------------------
(* The cache manager on a directory whose files can be damaged from        *)
(* outside: a partial write, a truncation, a removal                       *)

\* A file cut short: neither JSON nor parquet can be read from it
Truncated(file) == [fmt |-> "truncated", ctime |-> file.ctime]

\* One file of the cache directory is truncated or removed
Damage ==
    /\ \E path \in Paths :
           /\ files[path] # NoFile
           /\ files[path].fmt # "truncated"
           /\ \E damaged \in {Truncated(files[path]), NoFile} :
                  files' = [files EXCEPT ![path] = damaged]
    /\ Called([NoOp EXCEPT !.op = "damage"])
    /\ UNCHANGED n_saves
    /\ UNCHANGED <<mainVars, engVars, scenarioVars, extraVars>>

NextDamaged == Save \/ Load \/ Damage

SpecDamaged == InitCache /\ [][NextDamaged]_vars

----------------------------------------------------------------------------
(* The cache manager called with key_parts dicts that hold the same items  *)
(* in different insertion orders                                           *)

SaveAnyOrder ==
    /\ SaveToCacheOn(KeyParts \cup ReorderedKeyParts)
    /\ UNCHANGED <<mainVars, engVars, scenarioVars, extraVars>>

LoadAnyOrder ==
    /\ LoadFromCacheOn(KeyParts \cup ReorderedKeyParts)
    /\ UNCHANGED <<mainVars, engVars, scenarioVars, extraVars>>

NextKeys == SaveAnyOrder \/ LoadAnyOrder

SpecKeys == InitCache /\ [][NextKeys]_vars

----------------------------------------------------------------------------
(* Two concurrent save_to_cache calls on the same key_parts                *)

InitConcurrent ==
    /\ MainStart(InitialCapitals)
    /\ EngStart
    /\ flat_price = 0
    /\ buy_row = 0
    /\ CacheStart
    /\ WritersStart
    /\ DataStart
    /\ StrategyIdle
    /\ LateStart

WriterLocals ==
    /\ \E w \in Writers : SaveLocals(w)
    /\ UNCHANGED <<mainVars, engVars, scenarioVars, dataVars, stratVars, lateVars>>

WriterPayload ==
    /\ \E w \in Writers : SavePayload(w)
    /\ UNCHANGED <<mainVars, engVars, scenarioVars, dataVars, stratVars, lateVars>>

WriterSidecar ==
    /\ \E w \in Writers : SaveSidecar(w)
    /\ UNCHANGED <<mainVars, engVars, scenarioVars, dataVars, stratVars, lateVars>>

WriterWait == Tick /\ UNCHANGED <<mainVars, engVars, scenarioVars, extraVars>>

NextConcurrent == WriterLocals \/ WriterPayload \/ WriterSidecar \/ WriterWait

SpecConcurrent == InitConcurrent /\ [][NextConcurrent]_vars

----------------------------------------------------------------------------
(* A load_from_cache call concurrent with the two save_to_cache calls      *)

ReaderExists ==
    /\ LoadExists
    /\ UNCHANGED <<mainVars, engVars, scenarioVars, cacheVars, writerVars, dataVars,
                   stratVars, factoryVars>>

ReaderMeta ==
    /\ LoadMeta
    /\ UNCHANGED <<mainVars, engVars, scenarioVars, cacheVars, writerVars, dataVars,
                   stratVars, factoryVars>>

ReaderPayload ==
    /\ LoadPayload
    /\ UNCHANGED <<mainVars, engVars, scenarioVars, cacheVars, writerVars, dataVars,
                   stratVars, factoryVars>>

NextReader == NextConcurrent \/ ReaderExists \/ ReaderMeta \/ ReaderPayload

SpecReader == InitConcurrent /\ [][NextReader]_vars

----------------------------------------------------------------------------
(* get_backtest_data called again and again, for two requests, while time  *)
(* passes                                                                  *)

Get ==
    /\ \E key_parts \in KeyParts : GetBacktestData(key_parts)
    /\ UNCHANGED <<mainVars, engVars, scenarioVars, writerVars, stratVars, lateVars>>

DataWait == Tick /\ UNCHANGED <<mainVars, engVars, scenarioVars, extraVars>>

NextData == Get \/ DataWait

SpecData == InitCache /\ [][NextData]_vars

----------------------------------------------------------------------------
(* get_backtest_data when writes of the cache directory may fail           *)

GetWriteFails ==
    /\ \E key_parts \in KeyParts : GetBacktestDataWriteFails(key_parts)
    /\ UNCHANGED <<mainVars, engVars, scenarioVars, writerVars, stratVars, lateVars>>

NextDataFaulty == Get \/ GetWriteFails \/ DataWait

SpecDataFaulty == InitCache /\ [][NextDataFaulty]_vars

----------------------------------------------------------------------------
(* A strategy on an arbitrary frame: apply is called on the frame, then    *)
(* generate_signals on what apply returned, then the engine runs the       *)
(* strategy on the frame.                                                  *)

MaxLen == 10           \* rows of the frame given to a strategy

ClosePrices == {1, 2}
StrategyCapitals == {1000}

InitStrategy ==
    /\ MainStart(StrategyCapitals)
    /\ EngStart
    /\ flat_price = 0
    /\ buy_row = 0
    /\ CacheStart
    /\ writers = NoWriters
    /\ DataStart
    /\ LateStart
    /\ strategy \in Strategies
    /\ ohlcv \in SeqsUpTo(ClosePrices, MaxLen)
    /\ applied = NotApplied
    /\ signals = NotGenerated
    /\ result = NoResult

Apply ==
    /\ ApplyCall
    /\ UNCHANGED <<mainVars, engVars, scenarioVars, cacheVars, writerVars, dataVars, lateVars>>

Generate ==
    /\ GenerateCall
    /\ UNCHANGED <<mainVars, engVars, scenarioVars, cacheVars, writerVars, dataVars, lateVars>>

Backtest ==
    /\ BacktestStart
    /\ UNCHANGED <<mainVars, scenarioVars, cacheVars, writerVars, dataVars, lateVars>>

RunDate ==
    /\ BacktestDate
    /\ UNCHANGED <<mainVars, scenarioVars, cacheVars, writerVars, dataVars, lateVars>>

NextStrategy == Apply \/ Generate \/ Backtest \/ RunDate

SpecStrategy == InitStrategy /\ [][NextStrategy]_vars

----------------------------------------------------------------------------
(* Scenario A: 40 daily closes rising linearly from 100 to 140, the SMA    *)
(* strategy with windows 5 and 20. The closes are 100 + 40 * i / 39 for    *)
(* i = 0 .. 39; prices are counted in 1/39 currency unit here, so that     *)
(* they are whole numbers (the coin unit shrinks by the same factor and    *)
(* cash values are unchanged).                                             *)

LinearCloses == [i \in 1 .. 40 |-> 3900 + 40 * (i - 1)]
ScenarioACapitals == {500000, 1000000, 2000000}

InitScenarioA ==
    /\ MainStart(ScenarioACapitals)
    /\ EngStart
    /\ flat_price = 0
    /\ buy_row = 0
    /\ CacheStart
    /\ writers = NoWriters
    /\ DataStart
    /\ LateStart
    /\ strategy = SMA(5, 20)
    /\ ohlcv = LinearCloses
    /\ applied = NotApplied
    /\ signals = NotGenerated
    /\ result = NoResult

SpecScenarioA == InitScenarioA /\ [][NextStrategy]_vars

----------------------------------------------------------------------------
(* The RSI strategy applied to a frame and backtested: the frame has the   *)
(* fewest rows the strategy accepts, its first rows hold one price and its *)
(* last FreeRows rows any of three prices                                  *)

FreeRows == 7          \* rows of the frame whose close is drawn freely

MomentumPrices == {1, 2, 3}

\* RSIStrategy(window=2) with every other parameter at its default
MomentumStrategy == RSI(2, 70, 30, 50, 50, 7, 5, 5, 3)

MomentumFrames ==
    {[i \in 1 .. (GetMinRequiredRows(MomentumStrategy) - FreeRows) |-> 2] \o tail :
        tail \in [1 .. FreeRows -> MomentumPrices]}

InitMomentum ==
    /\ MainStart(StrategyCapitals)
    /\ EngStart
    /\ flat_price = 0
    /\ buy_row = 0
    /\ CacheStart
    /\ writers = NoWriters
    /\ DataStart
    /\ LateStart
    /\ strategy = MomentumStrategy
    /\ ohlcv \in MomentumFrames
    /\ applied = NotApplied
    /\ signals = NotGenerated
    /\ result = NoResult

SpecMomentum == InitMomentum /\ [][NextStrategy]_vars

----------------------------------------------------------------------------
(* Lookups and creations of strategies by code                             *)

Lookup ==
    /\ RegistryLookup
    /\ UNCHANGED <<mainVars, engVars, scenarioVars, cacheVars, writerVars, dataVars,
                   stratVars, readerVars>>

CreateByFactory ==
    /\ FactoryCreate
    /\ UNCHANGED <<mainVars, engVars, scenarioVars, cacheVars, writerVars, dataVars,
                   stratVars, readerVars>>

CreateByPackage ==
    /\ PackageCreate
    /\ UNCHANGED <<mainVars, engVars, scenarioVars, cacheVars, writerVars, dataVars,
                   stratVars, readerVars>>

NextFactory == Lookup \/ CreateByFactory \/ CreateByPackage

SpecFactory == InitCache /\ [][NextFactory]_vars

----------------------------------------------------------------------------
(* Claims about the simulators                                             *)

\* cash + coin_amount * close of the row recorded last by main.py
Total == cash_history + CoinValue(coin_amount, price)

\* C1 (as stated): at every timestamp of a run the recorded total asset
\* value equals the recorded cash plus coin_amount times the close price,
\* also in runs where the portfolio value falls below 1% of the initial
\* capital.
C1_EquityEveryRow == row > 0 => asset_history = Total

\* C1 (amended): the recorded total asset value equals cash plus coin_amount
\* times close at every timestamp where that sum is at least 1% of the
\* initial capital; where the sum is below that, the recorded value is 1% of
\* the initial capital.
C1_EquityUnlessFloored ==
    row > 0 =>
        IF Total * FloorDen >= initial_capital * FloorNum
        THEN asset_history = Total
        ELSE asset_history = MulDiv(initial_capital, FloorNum, FloorDen)

\* C1 witness: a recorded row of a run whose value fell below the floor
\* while coin is held
C1_Witness ==
    /\ row > 0
    /\ coin_amount > 0
    /\ Total * FloorDen < initial_capital * FloorNum
    /\ asset_history = MulDiv(initial_capital, FloorNum, FloorDen)

\* The rows of a date are all of one type
AllOfType(rows, t) == rows # <<>> /\ \A k \in 1 .. Len(rows) : rows[k].type = t

\* No signal row for the date, or a row that is neither buy nor sell
EngHold(rows) == rows = <<>> \/ rows[1].type = "hold"

\* C2: at every timestamp whose signal is hold (signal 0 in main.py; no
\* signal row, or a row that is neither buy nor sell, in the engine) the
\* simulator leaves cash, coin_amount and the trade ledger as they were
\* after the previous timestamp.
C2_HoldNoOp ==
    [][ /\ (row' = row + 1 /\ signal' = 0) =>
               /\ cash' = cash
               /\ coin_amount' = coin_amount
               /\ trade_history' = trade_history
        /\ (eng_row' = eng_row + 1 /\ EngHold(eng_signals')) =>
               /\ eng_cash' = eng_cash
               /\ eng_coin' = eng_coin
               /\ eng_trades' = eng_trades ]_vars

\* C2 witness: a hold row processed while coin is held, after a buy
C2_Witness ==
    /\ row >= 2
    /\ signal = 0
    /\ position = 1
    /\ coin_amount > 0
    /\ Len(trade_history) = 1

\* At most one trade per timestamp, in both simulators
OneTradePerStep ==
    /\ row' = row + 1 => Len(trade_history') <= Len(trade_history) + 1
    /\ eng_row' = eng_row + 1 => Len(eng_trades') <= Len(eng_trades) + 1

\* main.py: a buy signal while long and a sell signal while flat do nothing
MainRepeatNoOp ==
    (row' = row + 1 /\ ((signal' = 1 /\ position = 1) \/ (signal' = -1 /\ position = 0)))
        => /\ cash' = cash
           /\ coin_amount' = coin_amount
           /\ trade_history' = trade_history

EngUnchanged ==
    /\ eng_cash' = eng_cash
    /\ eng_coin' = eng_coin
    /\ eng_trades' = eng_trades

\* C3 (as stated): each timestamp executes at most one trade, also when the
\* signal frame carries several rows for it; a buy signal received while
\* already long and a sell signal received while flat change neither cash
\* nor coin_amount and append no trade, for every signal stream.
C3_RepeatedSignalNoOp ==
    [][ /\ OneTradePerStep
        /\ MainRepeatNoOp
        /\ (eng_row' = eng_row + 1 /\ AllOfType(eng_signals', "buy") /\ eng_coin > 0)
               => EngUnchanged
        /\ (eng_row' = eng_row + 1 /\ AllOfType(eng_signals', "sell") /\ eng_coin = 0)
               => EngUnchanged ]_vars

\* C3 (amended): each timestamp executes at most one trade, also when the
\* signal frame carries several rows for it; a sell signal received while
\* flat, and a buy signal received while long with no cash left (the state
\* every buy at ratio 1.0 leaves; in main.py: while position is 1), change
\* neither cash nor coin_amount and append no trade.
C3_NoOpWithoutCash ==
    [][ /\ OneTradePerStep
        /\ MainRepeatNoOp
        /\ (eng_row' = eng_row + 1 /\ AllOfType(eng_signals', "buy") /\ eng_cash = 0)
               => EngUnchanged
        /\ (eng_row' = eng_row + 1 /\ AllOfType(eng_signals', "sell") /\ eng_coin = 0)
               => EngUnchanged ]_vars

\* C3 witness: a date whose frame carries a buy row and then a sell row,
\* of which only the buy was executed
C3_Witness ==
    /\ eng_row = 1
    /\ Len(eng_signals) = 2
    /\ eng_signals[1].type = "buy"
    /\ eng_signals[2].type = "sell"
    /\ Len(eng_trades) = 1
    /\ eng_coin > 0

\* C4: on a flat price series whose signals are one buy immediately
\* followed by one sell, final_capital <= initial_capital and
\* final_capital >= initial_capital * (1 - 2 * fee_rate).
C4_RoundTripFeeBound ==
    row >= buy_row + 1 =>
        /\ asset_history <= initial_capital
        /\ asset_history * FeeDen >= initial_capital * (FeeDen - 2 * FeeNum)

\* C4 witness: the row of the sell, both trades executed at the flat price
C4_Witness ==
    /\ row = buy_row + 1
    /\ Len(trade_history) = 2
    /\ trade_history[1] = [type |-> "buy", price |-> flat_price]
    /\ trade_history[2] = [type |-> "sell", price |-> flat_price]
    /\ asset_history < initial_capital

\* C5: in both simulators every executed buy and every executed sell is
\* charged a positive fee on the notional: a buy credits less coin than
\* cash spent / price, a sell credits less cash than coin sold * price.
C5_EveryTradeChargesFee ==
    [][ /\ (row' = row + 1 /\ Len(trade_history') > Len(trade_history)) =>
               IF position' = 1
               THEN (coin_amount' - coin_amount) * price' < (cash - cash') * CoinScale
               ELSE (cash' - cash) * CoinScale < coin_amount * price'
        /\ (eng_row' = eng_row + 1 /\ Len(eng_trades') > Len(eng_trades)) =>
               LET t == eng_trades'[Len(eng_trades')]
               IN IF t.type = "buy"
                  THEN t.coin_amount * t.price < t.amount * CoinScale
                  ELSE t.amount * CoinScale < t.coin_amount * t.price ]_vars

----------------------------------------------------------------------------
(* Claims about the cache manager                                          *)

\* The last call was load_from_cache, made right after a save_to_cache on
\* the same key_parts and extension, and without a max_age
LoadedRightAfterSave ==
    /\ last_op.op = "load"
    /\ last_op.after_save # None
    /\ last_op.max_age = NoMaxAge

EntryFile(op) == files[GetCachePath(GenerateCacheKey(op.key_parts), op.extension)]
EntryMetadata(op) ==
    IF op.extension = "parquet"
    THEN files[GetCachePath(GenerateCacheKey(op.key_parts), "meta.json")].metadata
    ELSE EntryFile(op).metadata

\* An entry exists for the call's key_parts and extension: the payload file
\* and the metadata load_from_cache reads with it
HasEntry(op) ==
    /\ EntryFile(op) # NoFile
    /\ IF op.extension = "parquet"
       THEN files[GetCachePath(GenerateCacheKey(op.key_parts), "meta.json")] # NoFile
       ELSE EntryFile(op).fmt = "json"

\* C7: for every max_age T passed to load_from_cache, a zero duration
\* included, the call returns the payload only if an entry exists and
\* now - created_at <= T, and None otherwise.
C7_LoadHonoursMaxAge ==
    (/\ last_op.op = "load"
     /\ last_op.max_age # NoMaxAge
     /\ last_op.result # None)
        => /\ HasEntry(last_op)
           /\ last_op.at - EntryMetadata(last_op).created_at <= last_op.max_age

\* C8: load_from_cache called without a max_age returns None once more than
\* the max_age T given to save_to_cache has elapsed since the save.
C8_SavedMaxAgeExpires ==
    (/\ last_op.op = "load"
     /\ last_op.max_age = NoMaxAge
     /\ HasEntry(last_op)
     /\ EntryMetadata(last_op).max_age # NoMaxAge
     /\ last_op.at - EntryMetadata(last_op).created_at > EntryMetadata(last_op).max_age)
        => last_op.result = None

C10_ClearByAge ==
    [][ (last_op'.op = "clear" /\ n_ops' = n_ops + 1 /\ last_op'.max_age > 0) =>
            \A key \in CacheKeys, extension \in Extensions :
                LET f == files[GetCachePath(key, extension)]
                    meta_path == GetCachePath(key, "meta.json")
                IN f # NoFile =>
                    IF now - f.ctime > last_op'.max_age
                    THEN /\ files'[GetCachePath(key, extension)] = NoFile
                         /\ f.fmt = "parquet" => files'[meta_path] = NoFile
                    ELSE /\ files'[GetCachePath(key, extension)] = f
                         /\ f.fmt = "parquet" => files'[meta_path] = files[meta_path]
      ]_vars

\* The files load_from_cache reads for the last call
LoadedPayload == files[GetCachePath(GenerateCacheKey(last_op.key_parts), last_op.extension)]
LoadedSidecar == files[GetCachePath(GenerateCacheKey(last_op.key_parts), "meta.json")]

\* No entry, a parquet payload without sidecar, or a truncated payload or
\* metadata file
Unreadable ==
    \/ LoadedPayload = NoFile
    \/ LoadedPayload.fmt = "truncated"
    \/ /\ last_op.extension = "parquet"
       /\ (LoadedSidecar = NoFile \/ LoadedSidecar.fmt = "truncated")

\* C11: load_from_cache never raises: when no entry exists for key_parts,
\* when a parquet payload has no metadata sidecar, or when the payload or
\* metadata file is truncated or unparsable, it returns None.
C11_LoadNeverRaises ==
    last_op.op = "load" =>
        /\ last_op.result # Raised
        /\ Unreadable => last_op.result = None

\* C11 witness: a load of a parquet entry whose sidecar was truncated after
\* the save
C11_Witness ==
    /\ last_op.op = "load"
    /\ last_op.extension = "parquet"
    /\ LoadedPayload # NoFile
    /\ LoadedPayload.fmt = "parquet"
    /\ LoadedSidecar # NoFile
    /\ LoadedSidecar.fmt = "truncated"
    /\ last_op.result = None

\* The entry stored for the concurrent calls' key_parts
StoredPayload ==
    files[GetCachePath(GenerateCacheKey(writers[1].key_parts), writers[1].extension)]
StoredSidecar ==
    files[GetCachePath(GenerateCacheKey(writers[1].key_parts), "meta.json")]

\* The stored entry is the complete entry of call w: its payload with its
\* metadata
EntryOf(w) ==
    IF writers[w].data.kind = "frame"
    THEN /\ StoredPayload.fmt = "parquet"
         /\ StoredPayload.data = writers[w].data
         /\ StoredSidecar # NoFile
         /\ StoredSidecar.metadata = writers[w].metadata
    ELSE /\ StoredPayload.fmt = "json"
         /\ StoredPayload.data = JsonRoundTrip(writers[w].data)
         /\ StoredPayload.metadata = writers[w].metadata

\* C12: after any interleaving of two concurrent save_to_cache calls on the
\* same key_parts, the stored entry is the complete entry of exactly one of
\* the two calls: payload and metadata come from the same call.
C12_OneWritersEntry ==
    (writers # NoWriters /\ \A w \in Writers : writers[w].pc = "done")
        => \E w \in Writers : EntryOf(w)

\* The key/value pairs of a key_parts dict
Items(key_parts) == {key_parts[k] : k \in 1 .. Len(key_parts)}

\* C13: _generate_cache_key returns the same key for any two key_parts
\* dicts holding the same key/value pairs, whatever their insertion order,
\* and load_from_cache addresses the same entry for both orderings: its
\* result is the one the call returns for every other ordering.
C13_KeyOrderIndependent ==
    \A kp1, kp2 \in KeyParts \cup ReorderedKeyParts :
        Items(kp1) = Items(kp2) =>
            /\ GenerateCacheKey(kp1) = GenerateCacheKey(kp2)
            /\ (last_op.op = "load" /\ last_op.key_parts = kp1) =>
                   last_op.result =
                       LoadResult(files, kp2, last_op.extension, last_op.max_age)

\* C13 witness: an entry saved under one insertion order is returned by a
\* load_from_cache that gives the items in the other order
C13_Witness ==
    /\ last_op.op = "load"
    /\ last_op.key_parts \in ReorderedKeyParts
    /\ last_op.extension = "json"
    /\ LoadedPayload # NoFile
    /\ LoadedPayload.fmt = "json"
    /\ LoadedPayload.metadata.key_parts # last_op.key_parts
    /\ last_op.result = LoadedPayload.data

----------------------------------------------------------------------------
(* Claims about get_backtest_data                                          *)

\* The provider supplied a frame for the request of the call being made, in
\* a call made at most one hour ago
FreshlyFetched(key_parts) ==
    LET f == fetched[GenerateCacheKey(key_parts)]
    IN f # NoFetch /\ now - f.at <= OneHour

\* C14: a get_backtest_data call made within one hour of a successful call
\* with the same arguments returns a frame equal to that call's and does
\* not invoke the provider; on a miss it fetches once, saves the entry and
\* returns the fetched frame.
C14_ReadThrough ==
    [][ n_gets' = n_gets + 1 =>
            LET key_parts == last_get'.key_parts
            IN IF FreshlyFetched(key_parts)
               THEN /\ last_get'.result =
                           fetched[GenerateCacheKey(key_parts)].frame
                    /\ n_fetch' = n_fetch
               ELSE /\ n_fetch' = n_fetch + 1
                    /\ last_get'.outcome.kind = "frame" =>
                           /\ last_get'.result = last_get'.outcome
                           /\ LoadResult(files', key_parts, "parquet", OneHour)
                                  = last_get'.outcome ]_vars

\* C14 witness: a second call for a request, within the hour, served from
\* the cache without a call of the provider
C14_Witness ==
    /\ n_gets = 2
    /\ n_fetch = 1
    /\ now = OneHour
    /\ last_get.at = OneHour
    /\ last_get.cached # None
    /\ last_get.result = fetched[GenerateCacheKey(last_get.key_parts)].frame

\* C15: when the provider fails to supply data, get_backtest_data returns
\* None, has invoked the provider exactly once, and writes no cache entry.
C15_FailureNotCached ==
    [][ (n_gets' = n_gets + 1 /\ n_fetch' # n_fetch
         /\ last_get'.outcome \in ProviderFailures) =>
            /\ last_get'.result = None
            /\ n_fetch' = n_fetch + 1
            /\ files' = files ]_vars

\* C15 witness: a failed call for a request while the other request has a
\* cache entry
C15_Witness ==
    /\ n_gets = 2
    /\ n_fetch = 2
    /\ last_get.outcome \in ProviderFailures
    /\ last_get.result = None
    /\ \E path \in Paths : files[path] # NoFile
    /\ LoadResult(files, last_get.key_parts, "parquet", NoMaxAge) = None

----------------------------------------------------------------------------
(* Claims about the strategies                                             *)

\* C16: for every strategy, apply() on an input with fewer rows than
\* get_min_required_rows() fails with the insufficient-data error before any
\* indicator or signal is computed: what the caller gets is the error, with
\* no signal or position column, and the caller's frame is left as it was.
C16_ShortInputRejected ==
    [][(/\ applied = NotApplied
        /\ applied' # NotApplied
        /\ Len(ohlcv) < GetMinRequiredRows(strategy))
       => (applied' = ValueError /\ ohlcv' = ohlcv)]_vars

C16_Witness ==
    /\ applied = ValueError
    /\ strategy \in {SMA(2, 5), BB(5, 1)}
    /\ Len(ohlcv) = GetMinRequiredRows(strategy) - 1

\* The first row of ohlcv where both moving averages of the SMA strategy
\* are defined and the short one is above the long one (0: there is none)
FirstShortAboveLong ==
    LET above == [i \in 1 .. Len(ohlcv) |->
                     MeanGt(Sma(ohlcv, strategy.short_window)[i],
                            Sma(ohlcv, strategy.long_window)[i])]
    IN FirstValidIdx(above)

\* C17: in scenario A (40 closes rising linearly from 100 to 140, SMA with
\* windows 5 and 20, initial capital 1,000,000 among others) the strategy
\* yields exactly one buy signal, at the first timestamp where both moving
\* averages are defined and the short one is above the long one, and no
\* sell signal; the finished run has made one trade and its final equity is
\* greater than the initial capital (the engine charges no fee).
C17_RisingSeriesOneBuy ==
    /\ signals # NotGenerated =>
           signals.rows = <<SignalRow(FirstShortAboveLong, "buy")>>
    /\ result.kind = "done" =>
           /\ TotalTrades = 1
           /\ eng_trades[1].type = "buy"
           /\ FinalAsset > initial_capital

C17_Witness ==
    /\ ohlcv = LinearCloses
    /\ initial_capital = 1000000
    /\ signals.rows = <<SignalRow(20, "buy")>>
    /\ result.kind = "done"
    /\ FinalAsset > 1170000

\* The frame holds one price at every row and has the rows the strategy needs
ConstantSeries ==
    /\ Len(ohlcv) >= GetMinRequiredRows(strategy)
    /\ \A i \in 1 .. Len(ohlcv) : ohlcv[i] = ohlcv[1]

\* C18 (as stated): for every constant-price series of sufficient length
\* the Bollinger strategy never signals: apply() sets signal 0 at every
\* timestamp, generate_signals() emits no buy and no sell row, and the
\* finished run has made no trade and has a maximal drawdown of 0.
C18_ConstantNeverSignals ==
    (strategy.kind = "bb" /\ ConstantSeries) =>
        /\ applied # NotApplied =>
               /\ applied.kind = "frame"
               /\ \A i \in 1 .. Len(ohlcv) : applied.signal[i] = 0
        /\ signals # NotGenerated => signals.rows = <<>>
        /\ result.kind = "done" => (TotalTrades = 0 /\ result.loss = 0)

\* C19 (as stated): for every strategy and every input of sufficient length
\* the position column returned by apply() holds only +1, -1 and 0: +1 or -1
\* exactly at the timestamps where the signal state changes, and 0 where the
\* signal state is the same as at the previous timestamp.
C19_PositionMarksChanges ==
    applied.kind = "frame" =>
        \A i \in 1 .. Len(ohlcv) :
            /\ applied.position[i] \in {1, -1, 0}
            /\ (i > 1 /\ applied.signal[i] = applied.signal[i - 1])
                   => applied.position[i] = 0
            /\ (i > 1 /\ applied.signal[i] # applied.signal[i - 1])
                   => applied.position[i] \in {1, -1}

\* C20 (as stated): the Bollinger strategy sets signal +1 exactly at the
\* valid timestamps where close is below the lower band (mean - k * std) and
\* signal -1 exactly at the valid timestamps where close is above the upper
\* band (mean + k * std); a close between the middle band and the upper
\* band produces signal 0.
C20_BandSignals ==
    (applied.kind = "frame" /\ strategy.kind = "bb") =>
        LET bands == BollingerBands(ohlcv, strategy.window, strategy.std_dev)
            middle_band == bands[1]
            upper_band == bands[2]
            lower_band == bands[3]
        IN \A i \in 1 .. Len(ohlcv) :
               /\ applied.signal[i] = 1 <=> CloseLt(ohlcv[i], lower_band[i])
               /\ applied.signal[i] = -1 <=> CloseGt(ohlcv[i], upper_band[i])
               /\ (/\ CloseGt(ohlcv[i], middle_band[i])
                   /\ ~CloseGt(ohlcv[i], upper_band[i]))
                      => applied.signal[i] = 0

----------------------------------------------------------------------------
(* Claims about the registry and the factories (SpecFactory)               *)

\* The codes a function knows, and the classes it may yield for a code
KnownClasses(fn, code) ==
    LET items == CASE fn = "get_strategy_class" -> DiscoverStrategies
                   [] fn = "factory.create_strategy" -> FactoryStrategies
                   [] OTHER -> DiscoverStrategies \cup FactoryStrategies
    IN {it[2] : it \in {x \in items : x[1] = code}}

\* C23 (as stated): looking up or creating a strategy with a code that is
\* not registered yields None or a raised error and never an instance of some
\* other strategy, while a registered code yields that strategy; for
\* get_strategy_class, the factory create_strategy and the package-level
\* create_strategy.
C23_DefiniteLookup ==
    last_call.fn # "none" =>
        LET code == IF last_call.fn = "get_strategy_class" THEN last_call.code
                    ELSE Lower(last_call.code)
            known == KnownClasses(last_call.fn, code)
            out == last_call.outcome
        IN IF known = {} THEN out.kind \in {"None", "raised"}
           ELSE /\ out.kind = (IF last_call.fn = "get_strategy_class"
                               THEN "class" ELSE "instance")
                /\ out.class \in known

\* C24 (as stated): constructing a strategy from a supplied parameter
\* mapping drops every key that is not a declared parameter, rejects every
\* supplied value outside the declared min/max, and every declared
\* parameter supplied within range reaches the strategy instance.
C24_ValidatedConstruction ==
    (/\ last_call.fn = "factory.create_strategy"
     /\ KnownClasses(last_call.fn, Lower(last_call.code)) # {}) =>
        LET class == CHOOSE c \in KnownClasses(last_call.fn, Lower(last_call.code)) : TRUE
            declared == RegisterStrategyParams(class)
            kwargs == last_call.kwargs
            out == last_call.outcome
            OutOfRange(d) == d.name \in DOMAIN kwargs
                             /\ (kwargs[d.name] < d.min \/ kwargs[d.name] > d.max)
        IN IF \E d \in declared : OutOfRange(d)
           THEN out.kind # "instance"
           ELSE /\ out.kind = "instance"
                /\ {p[1] : p \in out.params} \subseteq {d.name : d \in declared}
                /\ \A d \in declared :
                       d.name \in DOMAIN kwargs => <<d.name, kwargs[d.name]>> \in out.params

----------------------------------------------------------------------------
(* Claims about the ledgers and the histories of the simulators            *)

\* trade_count = len(trade_history), in main.py's backtest_strategy
TradeCount == Len(trade_history)

\* The completed round trips of a ledger: its buys that a later sell closed,
\* which are as many as its sells
RoundTrips(ledger) ==
    Cardinality({i \in 1 .. Len(ledger) : ledger[i].type = "sell"})

\* C25 (as stated): the trade count reported for a run equals the number of
\* completed round trips; a buy still open at the end is not counted and a
\* buy/sell pair counts once.
C25_CountsRoundTrips ==
    /\ TradeCount = RoundTrips(trade_history)
    /\ TotalTrades = RoundTrips(eng_trades)

\* C26 (as stated): at every timestamp the cash and coin_amount recorded in
\* the per-timestamp history are the values after the transition applied at
\* that timestamp, so a buy executed at t is visible in the record for t.
C26_HistoryIsPostTrade ==
    /\ row > 0 => cash_history = cash
    /\ eng_row > 0 => (eng_cash_hist = eng_cash /\ eng_coin_hist = eng_coin)

\* No two consecutive entries of a ledger have the same type and the first
\* entry is a buy
Alternates(ledger) ==
    \A i \in 1 .. Len(ledger) :
        ledger[i].type = (IF i % 2 = 1 THEN "buy" ELSE "sell")

\* main.py's ledger alternates, whatever the signal column holds
MainLedgerAlternates == Alternates(trade_history)

\* C27: in every run of the engine on the signals a strategy generated, each
\* with ratio 1.0, the trade ledger alternates buy, sell, buy, ... starting
\* with a buy.
C27_LedgerAlternates ==
    result.kind \in {"running", "done"} => Alternates(eng_trades)

\* A finished run whose strategy signalled a sell before any buy and a buy
\* after the position was closed, with the ledger buy, sell, buy
C27_Witness ==
    /\ result.kind = "done"
    /\ Len(eng_trades) >= 3
    /\ Len(signals.rows) > Len(eng_trades)

----------------------------------------------------------------------------
(* Claims about get_backtest_data on a failing cache (SpecDataFaulty)      *)

\* C30 (as stated): if writing the cache entry fails inside
\* get_backtest_data after the provider has returned data, the call still
\* returns the freshly fetched frame; a cache write failure never turns a
\* successful fetch into a None result.
C30_FetchSurvivesWriteFailure ==
    (/\ last_op.op = "save"
     /\ last_op.result = Raised
     /\ last_get.at = last_op.at
     /\ last_get.outcome.kind = "frame") => last_get.result = last_get.outcome

----------------------------------------------------------------------------
(* Claims about a load concurrent with saves (SpecReader)                  *)

\* C29 (as stated): when load_from_cache(key_parts, 'parquet', max_age=T)
\* runs concurrently with save_to_cache calls on the same key_parts, any
\* payload it returns was written by a save whose own created_at satisfies
\* now - created_at <= T.
C29_FreshPayloadOnly ==
    (reader.pc = "done" /\ reader.result.kind = "frame") =>
        reader.checked_at - writers[reader.result.v].metadata.created_at
            <= reader.max_age

----------------------------------------------------------------------------
(* Claims about the RSI strategy (SpecMomentum) and about generate_signals *)

\* C21 (as stated): the RSI strategy is a three-state machine over none (0),
\* long (1) and short (-1) stepped once per timestamp: from none it enters
\* long when RSI is below oversold and short when RSI is above overbought;
\* once long it stays long until RSI rises above exit_oversold, once short
\* it stays short until RSI falls below exit_overbought.
C21_ThreeStateMachine ==
    (applied.kind = "frame" /\ strategy.kind = "rsi") =>
        \A i \in 2 .. Len(ohlcv) :
            (~applied.rsi[i].nan /\ ~applied.rsi[i - 1].nan) =>
                /\ applied.signal[i] \in {0, 1, -1}
                /\ (/\ applied.signal[i - 1] = 0
                    /\ RsiBelow(applied.rsi[i], strategy.oversold))
                       => applied.signal[i] = 1
                /\ (/\ applied.signal[i - 1] = 0
                    /\ RsiAbove(applied.rsi[i], strategy.overbought))
                       => applied.signal[i] = -1
                /\ (/\ applied.signal[i - 1] = 1
                    /\ ~RsiAbove(applied.rsi[i], strategy.exit_oversold))
                       => applied.signal[i] = 1
                /\ (/\ applied.signal[i - 1] = -1
                    /\ ~RsiBelow(applied.rsi[i], strategy.exit_overbought))
                       => applied.signal[i] = -1

\* C22 (as stated): with min_holding_period = N > 0, in the trade sequence
\* obtained by simulating the signals the strategy generated, every sell
\* occurs at least N rows after the buy that opened the position.
C22_SellAfterHolding ==
    (/\ result.kind \in {"running", "done"}
     /\ strategy.kind = "rsi"
     /\ strategy.min_holding_period > 0) =>
        \A i \in 2 .. Len(eng_trades) :
            (eng_trades[i].type = "sell" /\ eng_trades[i - 1].type = "buy") =>
                eng_trades[i].date - eng_trades[i - 1].date
                    >= strategy.min_holding_period

\* C28 (as stated): every 'sell' row emitted by generate_signals lies at a
\* timestamp where the strategy's signal value is negative and every 'buy'
\* row where it is positive; no row is emitted where the signal is 0, in
\* particular not at the first row and not at the row following an
\* isolated buy signal.
C28_RowsFollowSignal ==
    (/\ applied.kind = "frame"
     /\ signals # NotGenerated
     /\ strategy.kind \in {"bb", "rsi"}) =>
        \A j \in 1 .. Len(signals.rows) :
            LET r == signals.rows[j]
            IN /\ r.type = "sell" => applied.signal[r.date] < 0
               /\ r.type = "buy" => applied.signal[r.date] > 0

====
